---- MODULE Spec2Model ----
(***************************************************************************)
(* Weather dashboard: the weather-data acquisition pipeline.               *)
(*   src/src/hooks/useWeather.ts            useWeatherData (the hook)      *)
(*   src/src/lib/weatherUtils.ts            API client, services,          *)
(*                                          transforms                     *)
(*   src/src/components/weather/WeatherDetails.tsx  WeatherDashboard       *)
(*                                                                         *)
(* Strings are sequences of one-character strings, so that the regular     *)
(* expressions, String.split, Number() and number formatting of the source *)
(* are computed and not assumed.  Numbers are exact decimals m / 10^e.     *)
(***************************************************************************)
EXTENDS Integers, Sequences, FiniteSets, TLC

\* ------------------------------------------------------------------------
\* Characters and strings
\* ------------------------------------------------------------------------

DigitChars == <<"0", "1", "2", "3", "4", "5", "6", "7", "8", "9">>

Digits == {DigitChars[i] : i \in 1..10}

LowerChars == <<"a", "b", "c", "d", "e", "f", "g", "h", "i", "j", "k", "l", "m",
                "n", "o", "p", "q", "r", "s", "t", "u", "v", "w", "x", "y", "z">>

UpperChars == <<"A", "B", "C", "D", "E", "F", "G", "H", "I", "J", "K", "L", "M",
                "N", "O", "P", "Q", "R", "S", "T", "U", "V", "W", "X", "Y", "Z">>

Lower == {LowerChars[i] : i \in 1..26}

Upper == {UpperChars[i] : i \in 1..26}

\* \s of the regular expressions and the white space String.trim strips
Whitespace == {" "}

DigitVal(ch) == (CHOOSE i \in 1..10 : DigitChars[i] = ch) - 1

\* String.prototype.toLowerCase, one character
LowerOf(ch) ==
    IF ch \in Upper THEN LowerChars[CHOOSE i \in 1..26 : UpperChars[i] = ch] ELSE ch

ToLowerCase(s) == [i \in 1..Len(s) |-> LowerOf(s[i])]

\* String.prototype.includes
Includes(s, t) ==
    \E i \in 0..(Len(s) - Len(t)) : SubSeq(s, i + 1, i + Len(t)) = t

\* String.prototype.trim
RECURSIVE Trim(_)
Trim(s) ==
    IF s = <<>> THEN s
    ELSE IF Head(s) \in Whitespace THEN Trim(Tail(s))
    ELSE IF s[Len(s)] \in Whitespace THEN Trim(SubSeq(s, 1, Len(s) - 1))
    ELSE s

\* String.prototype.split(sep) for a one-character separator
RECURSIVE Split(_, _)
Split(s, sep) ==
    IF \A i \in 1..Len(s) : s[i] # sep THEN <<s>>
    ELSE LET k == CHOOSE i \in 1..Len(s) :
                      s[i] = sep /\ \A j \in 1..(i - 1) : s[j] # sep
         IN  <<SubSeq(s, 1, k - 1)>> \o Split(SubSeq(s, k + 1, Len(s)), sep)

\* Array.prototype.join
RECURSIVE Join(_, _)
Join(parts, sep) ==
    IF parts = <<>> THEN <<>>
    ELSE IF Len(parts) = 1 THEN parts[1]
    ELSE parts[1] \o sep \o Join(Tail(parts), sep)

\* ------------------------------------------------------------------------
\* Numbers: the decimal m / 10^e with no trailing zero in the fraction, or NaN
\* ------------------------------------------------------------------------

RECURSIVE Pow10(_)
Pow10(n) == IF n = 0 THEN 1 ELSE 10 * Pow10(n - 1)

NaN == [nan |-> TRUE, m |-> 0, e |-> 0]

RECURSIVE Dec(_, _)
Dec(m, e) ==
    IF e > 0 /\ m % 10 = 0 THEN Dec(m \div 10, e - 1)
    ELSE [nan |-> FALSE, m |-> m, e |-> e]

Negate(x) == IF x.nan THEN x ELSE [x EXCEPT !.m = 0 - x.m]

\* JavaScript truthiness of a number: NaN and 0 are falsy
Truthy(x) == ~x.nan /\ x.m # 0

RECURSIVE DigitsValue(_)
DigitsValue(s) ==
    IF s = <<>> THEN 0
    ELSE 10 * DigitsValue(SubSeq(s, 1, Len(s) - 1)) + DigitVal(s[Len(s)])

\* An unsigned decimal literal: digits, digits '.' digits?, '.' digits
StrUnsignedDecimal(t) ==
    LET dots == {i \in 1..Len(t) : t[i] = "."}
    IN  IF \E i \in 1..Len(t) : t[i] \notin (Digits \cup {"."}) THEN NaN
        ELSE IF Cardinality(dots) > 1 \/ Len(t) = 0 THEN NaN
        ELSE IF dots = {} THEN Dec(DigitsValue(t), 0)
        ELSE LET d  == CHOOSE i \in dots : TRUE
                 ip == SubSeq(t, 1, d - 1)
                 fp == SubSeq(t, d + 1, Len(t))
             IN  IF ip = <<>> /\ fp = <<>> THEN NaN
                 ELSE Dec(DigitsValue(ip) * Pow10(Len(fp)) + DigitsValue(fp), Len(fp))

\* Number(string): white space is trimmed, the empty string is 0, a signed decimal
\* literal is its value and anything else is NaN.  (Exponents, hex literals and
\* "Infinity" are written with letters; no string of the model spells them.)
ToNumber(s) ==
    LET t == Trim(s)
    IN  IF t = <<>> THEN Dec(0, 0)
        ELSE IF Head(t) = "-" THEN Negate(StrUnsignedDecimal(Tail(t)))
        ELSE IF Head(t) = "+" THEN StrUnsignedDecimal(Tail(t))
        ELSE StrUnsignedDecimal(t)

RECURSIVE NatToStr(_)
NatToStr(n) ==
    IF n < 10 THEN <<DigitChars[n + 1]>>
    ELSE Append(NatToStr(n \div 10), DigitChars[(n % 10) + 1])

RECURSIVE ZeroPad(_, _)
ZeroPad(s, n) == IF Len(s) >= n THEN s ELSE ZeroPad(<<"0">> \o s, n)

\* Number.prototype.toString (template literals `${x}`): decimal notation, and
\* exponent notation below 1e-6
NumToStr(x) ==
    IF x.nan THEN <<"N", "a", "N">>
    ELSE LET a    == IF x.m < 0 THEN 0 - x.m ELSE x.m
             sign == IF x.m < 0 THEN <<"-">> ELSE <<>>
             ds   == NatToStr(a)
         IN  IF x.e > 6 /\ a * Pow10(6) < Pow10(x.e)
             THEN sign \o <<Head(ds)>>
                       \o (IF Len(ds) > 1 THEN <<".">> \o Tail(ds) ELSE <<>>)
                       \o <<"e", "-">> \o NatToStr(x.e - (Len(ds) - 1))
             ELSE sign \o NatToStr(a \div Pow10(x.e))
                       \o (IF x.e = 0 THEN <<>>
                           ELSE <<".">> \o ZeroPad(NatToStr(a % Pow10(x.e)), x.e))

\* ------------------------------------------------------------------------
\* The coordinate pattern of parseLocation:
\*   /^-?\d+(\.\d+)?\s*,\s*-?\d+(\.\d+)?$/
\* Each piece is the set of positions a match of it can end at (the position of
\* the next character), which is what a backtracking matcher explores.
\* ------------------------------------------------------------------------

\* \d+ from position i
DigitRunEnds(s, i) ==
    {j \in (i + 1)..(Len(s) + 1) : \A k \in i..(j - 1) : s[k] \in Digits}

\* \s* from position i
SpaceRunEnds(s, i) ==
    {j \in i..(Len(s) + 1) : \A k \in i..(j - 1) : s[k] \in Whitespace}

\* -?\d+(\.\d+)? from position i
DecimalEnds(s, i) ==
    LET a    == IF i <= Len(s) /\ s[i] = "-" THEN i + 1 ELSE i
        ints == DigitRunEnds(s, a)
    IN  ints \cup UNION {DigitRunEnds(s, j + 1) :
                            j \in {p \in ints : p <= Len(s) /\ s[p] = "."}}

CoordPatternTest(s) ==
    \E p1 \in DecimalEnds(s, 1) :
      \E p2 \in SpaceRunEnds(s, p1) :
        /\ p2 <= Len(s)
        /\ s[p2] = ","
        /\ \E p3 \in SpaceRunEnds(s, p2 + 1) :
             (Len(s) + 1) \in DecimalEnds(s, p3)

\* ------------------------------------------------------------------------
\* Values of the pipeline
\* ------------------------------------------------------------------------

\* Coordinates | null
Coords(lat, lon) == [null |-> FALSE, lat |-> lat, lon |-> lon]

NullCoords == [null |-> TRUE, lat |-> NaN, lon |-> NaN]

\* One part of a WeatherData (current, hourly or daily) by where it comes from:
\* the mock dataset, the transform of a response for coordinates `at`, or the
\* empty array transformWeatherData leaves for hourly and daily.
Part(src, at) == [src |-> src, at |-> at]

\* mockWeatherData: a module-level constant of mockData.ts
MockData ==
    [current  |-> Part("mock", NullCoords),
     hourly   |-> Part("mock", NullCoords),
     daily    |-> Part("mock", NullCoords),
     location |-> NullCoords]

\* getMockWeatherData
GetMockWeatherData == MockData

\* the WeatherData transformWeatherData makes of the current-weather response for
\* coordinates c: hourly and daily are empty arrays
LiveCurrent(c) ==
    [current  |-> Part("weather", c),
     hourly   |-> Part("empty", NullCoords),
     daily    |-> Part("empty", NullCoords),
     location |-> c]

\* the WeatherData transformForecastData makes of the forecast response for
\* coordinates c
LiveForecast(c) ==
    [current  |-> Part("forecast", c),
     hourly   |-> Part("forecast", c),
     daily    |-> Part("forecast", c),
     location |-> c]

\* the fields of `current` in mockWeatherData
MockCurrentFields ==
    {"temperature", "condition", "description", "icon", "feelsLike", "humidity",
     "windSpeed", "pressure", "visibility", "uvIndex", "sunrise", "sunset",
     "windDirection", "dewPoint"}

\* the fields of `current` that transformWeatherData and transformForecastData
\* set, from fields their response has, from a default or from a constant
TransformedCurrentFields ==
    {"temperature", "feelsLike", "condition", "description", "icon", "humidity",
     "windSpeed", "windDirection", "pressure", "visibility", "uvIndex", "sunrise",
     "sunset", "dewPoint", "timestamp"}

\* the current of a transform that leaves dewPoint out
FieldsOfCurrentWithoutDewPoint(part) ==
    IF part.src = "mock" THEN MockCurrentFields
    ELSE IF part.src \in {"weather", "forecast"}
    THEN TransformedCurrentFields \ {"dewPoint"}
    ELSE {}

\* the fields of a `current` by where it comes from
FieldsOfCurrent(part) ==
    IF part.src = "mock" THEN MockCurrentFields
    ELSE IF part.src \in {"weather", "forecast"} THEN TransformedCurrentFields
    ELSE {}

\* an hourly or daily that is an array: the mock's, a forecast's, or the empty
\* array of transformWeatherData
IsArray(part) == part.src \in {"mock", "forecast", "empty"}

\* { ...current, hourly: forecast.hourly, daily: forecast.daily }
Merge(current, forecast) ==
    [current EXCEPT !.hourly = forecast.hourly, !.daily = forecast.daily]

\* The strings of the model
StrParis == <<"P", "a", "r", "i", "s">>

StrOz == <<"O", "z">>

StrCoords == <<"4", ".", "5", ",", "-", "7">>

StrZeroLon == <<"5", ",", "0">>

StrCamel == <<"o", "z", "B", " ", "c">>

StrDefaultLocation ==
    <<"A", "s", "a", "b", "a", ",", " ", "D", "e", "l", "t", "a", " ",
      "S", "t", "a", "t", "e", ",", " ", "N", "i", "g", "e", "r", "i", "a">>

\* LocationSuggestion without its id; an absent state is the empty string
Place(name, state, country, lat, lon) ==
    [name |-> name, state |-> state, country |-> country, lat |-> lat, lon |-> lon]

\* mockLocations of getMockLocationSuggestions
MockLocations ==
    << Place(<<"N", "e", "w", " ", "Y", "o", "r", "k">>, <<"N", "Y">>, <<"U", "S">>,
             Dec(407128, 4), Dec(-740060, 4)),
       Place(<<"L", "o", "n", "d", "o", "n">>, <<>>, <<"G", "B">>,
             Dec(515074, 4), Dec(-1278, 4)),
       Place(<<"T", "o", "k", "y", "o">>, <<>>, <<"J", "P">>,
             Dec(356762, 4), Dec(1396503, 4)),
       Place(StrParis, <<>>, <<"F", "R">>, Dec(488566, 4), Dec(23522, 4)),
       Place(<<"S", "y", "d", "n", "e", "y">>, <<>>, <<"A", "U">>,
             Dec(-338688, 4), Dec(1512093, 4)) >>

\* getMockLocationSuggestions
GetMockLocationSuggestions(query) ==
    LET Match(l) == Includes(ToLowerCase(l.name), ToLowerCase(query))
    IN  SelectSeq(MockLocations, Match)

\* What the geocoding service can answer a search with limit 1: nothing, or one
\* of the places it knows (one of them on the prime meridian).
GeoDirectory ==
    { Place(StrParis, <<>>, <<"F", "R">>, Dec(4885, 2), Dec(235, 2)),
      Place(<<"T", "e", "m", "a">>, <<>>, <<"G", "H">>, Dec(567, 2), Dec(0, 0)) }

GeoAnswers == {<<>>} \cup {<<g>> : g \in GeoDirectory}

\* An HTTP GET: the endpoint and the parameters of its URL
Request(kind, q, limit, lat, lon, appid) ==
    [kind |-> kind, q |-> q, limit |-> limit, lat |-> lat, lon |-> lon,
     appid |-> appid]

\* ------------------------------------------------------------------------
\* State
\* ------------------------------------------------------------------------

VARIABLES
    apiKey,         \* Boolean(API_CONFIG.API_KEY), read when the module loads
    weatherData,    \* useWeatherData: useState(mockWeatherData)
    isLoading,      \* useWeatherData: useState(false)
    error,          \* useWeatherData: useState(null); "null" or a message
    lastUpdated,    \* useWeatherData: the number of setLastUpdated calls so far
    calls,          \* the fetchWeatherData calls, in the order they were issued
    pendingEffects, \* the values of initialLocation whose effect is still to run
    location,       \* WeatherDashboard: useState(last location or the default)
    lastLocation,   \* localStorage 'weather-last-location' (<<>>: no entry)
    searchQuery,    \* useLocationSearch: useState('')
    toast,          \* the title of the last toast shown, or "none"
    ds,             \* the handleDirectSearch invocation
    sel,            \* the handleLocationSelect invocation
    geoloc,         \* handleGetCurrentLocation: its invocation and geoError
    parse,          \* one parseLocation call on its own (SpecParse)
    xform,          \* one transform of a response on its own (SpecTransform)
    gen,            \* the evaluation of mockData.ts when the module loads (SpecMock)
    client,         \* one APIClient.get call on its own (SpecClient)
    savedApiKey,    \* localStorage 'openweather-api-key' (<<>>: no entry)
    savedSettings,  \* localStorage 'weather-app-settings' (<<>>: no entry)
    settings,       \* WeatherSettings: useState('') of apiKey, hasUnsavedChanges
    clock           \* the hour of the local clock: new Date().getHours()

hookVars == <<weatherData, isLoading, error, lastUpdated, calls>>

\* what only the specifications of one function on its own, or of the settings
\* panel, change
otherVars == <<gen, client, savedApiKey, savedSettings, settings, clock>>

dashVars == <<location, lastLocation, searchQuery, toast, ds, sel, geoloc>>

vars == <<apiKey, weatherData, isLoading, error, lastUpdated, calls, pendingEffects,
          location, lastLocation, searchQuery, toast, ds, sel, geoloc, parse, xform,
          gen, client, savedApiKey, savedSettings, settings, clock>>

\* ------------------------------------------------------------------------
\* Bounds
\* ------------------------------------------------------------------------

\* fetchWeatherData calls in one behaviour of the hook on its own
MaxCalls == 2

\* fetchWeatherData calls in one behaviour of the dashboard
MaxDashCalls == 3

\* the length of the strings parseLocation is given on its own
MaxLen == 5

\* ------------------------------------------------------------------------
\* locationService.searchLocations and parseLocation
\* ------------------------------------------------------------------------

\* searchLocations answers at once, without a request: `if (!query.trim()) return []`
SearchIsEmpty(query) == Trim(query) = <<>>

\* the request searchLocations issues through apiClient.get, which adds the key
\* (appid) when there is one
GeoRequest(query, limit) == Request("geo", query, limit, NaN, NaN, apiKey)

\* the value searchLocations resolves to: the mapped answer of a 2xx response, or
\* the mock suggestions of its catch block when apiClient.get threw
SearchResults(query, outcome, answer) ==
    IF outcome = "ok" THEN answer ELSE GetMockLocationSuggestions(query)

\* Math.trunc in place of Number: the fraction is lost
ParseCoordsTruncating(s) ==
    LET parts == Split(s, ",")
        Trunc(x) == IF x.nan THEN x
                    ELSE IF x.m < 0 THEN Dec(0 - ((0 - x.m) \div Pow10(x.e)), 0)
                    ELSE Dec(x.m \div Pow10(x.e), 0)
    IN  Coords(Trunc(ToNumber(parts[1])),
               IF Len(parts) >= 2 THEN Trunc(ToNumber(parts[2])) ELSE NaN)

\* const [lat, lon] = location.split(',').map(Number)
ParseCoords(s) ==
    LET parts == Split(s, ",")
    IN  Coords(ToNumber(parts[1]),
               IF Len(parts) >= 2 THEN ToNumber(parts[2]) ELSE NaN)

\* parseLocation after the geocoding search resolved to `results`
FirstResultCoords(results) ==
    IF Len(results) > 0 THEN Coords(results[1].lat, results[1].lon) ELSE NullCoords

\* parseLocation up to the point where it returns or waits for the network:
\* whether it waits, the coordinates it returns if it does not, whether it called
\* searchLocations (with limit 1) and the request that call issued
ParseLocation(s) ==
    IF s = <<>>
    THEN [wait |-> FALSE, coords |-> NullCoords, searched |-> FALSE, log |-> <<>>]
    ELSE IF CoordPatternTest(s)
    THEN [wait |-> FALSE, coords |-> ParseCoords(s), searched |-> FALSE, log |-> <<>>]
    ELSE IF SearchIsEmpty(s)
    THEN [wait |-> FALSE, coords |-> FirstResultCoords(<<>>), searched |-> TRUE,
          log |-> <<>>]
    ELSE [wait |-> TRUE, coords |-> NullCoords, searched |-> TRUE,
          log |-> <<GeoRequest(s, 1)>>]

\* ------------------------------------------------------------------------
\* fetchWeatherData
\* ------------------------------------------------------------------------

\* the argument of fetchWeatherData: a string, or undefined (refreshWeatherData)
Arg(s) == [given |-> TRUE, s |-> s]

NoArg == [given |-> FALSE, s |-> <<>>]

NoData == [current |-> Part("none", NullCoords), hourly |-> Part("none", NullCoords),
           daily |-> Part("none", NullCoords), location |-> NullCoords]

\* isAPIConfigured as the settings panel shows it (part_000 line 236), with the
\* saved key for the key being typed
IsAPIConfiguredOrSaved == apiKey \/ Len(savedApiKey) > 0

\* weatherUtils.isAPIConfigured
IsAPIConfigured == apiKey

\* One call: its argument, where it stands ("geo": awaiting parseLocation's search,
\* "weather": awaiting Promise.all, "done"), the coordinates parseLocation gave,
\* the state of its three requests (none, pending, ok, failed), the value of its
\* local `data`, the requests it issued, and its place in the order in which the
\* calls completed (0 until then).
NewCall(arg, by) ==
    [arg |-> arg, by |-> by, pc |-> "start", coords |-> NullCoords,
     geo |-> "none", cur |-> "none", fc |-> "none", data |-> NoData, log |-> <<>>,
     doneAt |-> 0]

\* WithCoords without the isAPIConfigured() test of line 42
WithCoordsIgnoringKey(c, coords) ==
    IF ~coords.null /\ Truthy(coords.lat) /\ Truthy(coords.lon)
    THEN [c EXCEPT !.pc = "weather", !.coords = coords,
                   !.cur = "pending", !.fc = "pending",
                   !.log = @ \o << Request("weather", <<>>, 0, coords.lat, coords.lon, apiKey),
                                   Request("forecast", <<>>, 0, coords.lat, coords.lon, apiKey) >>]
    ELSE [c EXCEPT !.pc = "done", !.coords = coords, !.data = MockData]

\* lines 41-56, once parseLocation has resolved to coords: either both requests
\* are issued (Promise.all evaluates both calls before it awaits) or the mock
\* dataset is taken
WithCoords(c, coords) ==
    IF IsAPIConfigured /\ ~coords.null /\ Truthy(coords.lat) /\ Truthy(coords.lon)
    THEN [c EXCEPT !.pc = "weather", !.coords = coords,
                   !.cur = "pending", !.fc = "pending",
                   !.log = @ \o << Request("weather", <<>>, 0, coords.lat, coords.lon, apiKey),
                                   Request("forecast", <<>>, 0, coords.lat, coords.lon, apiKey) >>]
    ELSE [c EXCEPT !.pc = "done", !.coords = coords, !.data = MockData]

\* lines 33-40 and parseLocation up to its first request: everything a call does
\* before it first waits for the network
StartCall(arg, by) ==
    LET c == NewCall(arg, by)
        p == ParseLocation(arg.s)
    IN  IF ~arg.given \/ arg.s = <<>> THEN WithCoords(c, NullCoords)
        ELSE IF ~p.wait THEN WithCoords(c, p.coords)
        ELSE [c EXCEPT !.pc = "geo", !.geo = "pending", !.log = p.log]

\* weatherService.getCurrentWeather: the transform, or the mock of its catch block
CurrentResult(c, outcome) ==
    IF outcome = "ok" THEN LiveCurrent(c.coords) ELSE GetMockWeatherData

\* weatherService.getForecast: the transform, or the mock of its catch block
ForecastResult(c, outcome) ==
    IF outcome = "ok" THEN LiveForecast(c.coords) ELSE GetMockWeatherData

\* lines 48-52, when both requests have been answered
Merged(c) == Merge(CurrentResult(c, c.cur), ForecastResult(c, c.fc))

\* AfterWeather that goes on only when both requests succeeded
AfterWeatherAwaitingSuccess(c) ==
    IF c.cur = "ok" /\ c.fc = "ok"
    THEN [c EXCEPT !.pc = "done", !.data = Merged(c)]
    ELSE c

\* Call c after one of its two requests was answered: done when both are
AfterWeather(c) ==
    IF c.cur # "pending" /\ c.fc # "pending"
    THEN [c EXCEPT !.pc = "done", !.data = Merged(c)]
    ELSE c

\* the number of calls that have completed
Completed == Cardinality({j \in 1..Len(calls) : calls[j].pc = "done"})

\* Apply with a guard that lets only the most recently issued call set weatherData
ApplyLatestOnly(i, c, starting) ==
    /\ calls' = [j \in 1..(IF starting THEN Len(calls) + 1 ELSE Len(calls)) |->
                    IF j # i THEN calls[j]
                    ELSE IF c.pc = "done" THEN [c EXCEPT !.doneAt = Completed + 1]
                    ELSE c]
    /\ error' = IF starting THEN "null" ELSE error
    /\ IF c.pc = "done"
       THEN /\ weatherData' = IF i >= Len(calls) THEN c.data ELSE weatherData
            /\ lastUpdated' = lastUpdated + 1
            /\ isLoading' = FALSE
       ELSE /\ isLoading' = IF starting THEN TRUE ELSE isLoading
            /\ UNCHANGED <<weatherData, lastUpdated>>

\* The hook's state after call number i became c: setIsLoading(true) and
\* setError(null) when it starts, and setWeatherData(data), setLastUpdated and
\* setIsLoading(false) when it is done.  A call that never waits for the network
\* does all of it in one turn of the event loop.
Apply(i, c, starting) ==
    /\ calls' = [j \in 1..(IF starting THEN Len(calls) + 1 ELSE Len(calls)) |->
                    IF j # i THEN calls[j]
                    ELSE IF c.pc = "done" THEN [c EXCEPT !.doneAt = Completed + 1]
                    ELSE c]
    /\ error' = IF starting THEN "null" ELSE error
    /\ IF c.pc = "done"
       THEN /\ weatherData' = c.data
            /\ lastUpdated' = lastUpdated + 1
            /\ isLoading' = FALSE
       ELSE /\ isLoading' = IF starting THEN TRUE ELSE isLoading
            /\ UNCHANGED <<weatherData, lastUpdated>>

\* fetchWeatherData(arg), called by `by`
Fetch(arg, by) == Apply(Len(calls) + 1, StartCall(arg, by), TRUE)

\* the behaviour has room for another call
Room(max) == Len(calls) < max

\* What a request can end as: without a key the service refuses it (HTTP 401),
\* with one it answers or fails
Outcomes == IF apiKey THEN {"ok", "failed"} ELSE {"failed"}

\* The geocoding request of call i is answered: parseLocation resolves, and the
\* call goes on to its two requests or to the mock dataset
GeocodeStep ==
    \E i \in 1..Len(calls) : \E outcome \in Outcomes : \E answer \in GeoAnswers :
      /\ calls[i].pc = "geo"
      /\ outcome = "failed" => answer = <<>>
      /\ Apply(i, WithCoords([calls[i] EXCEPT !.geo = outcome],
                             FirstResultCoords(
                                 SearchResults(calls[i].arg.s, outcome, answer))),
               FALSE)

\* The current-weather request of call i is answered
CurrentWeatherStep ==
    \E i \in 1..Len(calls) : \E outcome \in Outcomes :
      /\ calls[i].pc = "weather"
      /\ calls[i].cur = "pending"
      /\ Apply(i, AfterWeather([calls[i] EXCEPT !.cur = outcome]), FALSE)

\* The forecast request of call i is answered
ForecastStep ==
    \E i \in 1..Len(calls) : \E outcome \in Outcomes :
      /\ calls[i].pc = "weather"
      /\ calls[i].fc = "pending"
      /\ Apply(i, AfterWeather([calls[i] EXCEPT !.fc = outcome]), FALSE)

\* The effect of lines 72-76, for the oldest value of initialLocation it has not
\* run for: if (initialLocation) fetchWeatherData(initialLocation)
EffectStep(max) ==
    /\ pendingEffects # <<>>
    /\ pendingEffects' = Tail(pendingEffects)
    /\ IF Head(pendingEffects) # <<>>
       THEN Room(max) /\ Fetch(Arg(Head(pendingEffects)), "effect")
       ELSE UNCHANGED hookVars

\* ------------------------------------------------------------------------
\* The hook on its own: mounted with an initial location, then called
\* ------------------------------------------------------------------------

\* The strings fetchWeatherData is called with
FetchInputs == {StrCoords, StrZeroLon, StrParis, StrOz}

\* A caller of the hook calls fetchWeatherData(s)
FetchWeatherData ==
    /\ Room(MaxCalls)
    /\ \E s \in FetchInputs : Fetch(Arg(s), "caller")
    /\ UNCHANGED <<apiKey, pendingEffects, dashVars, parse, xform, otherVars>>

\* refreshWeatherData that passes the location on: fetchWeatherData(location)
RefreshWeatherDataForLocation ==
    /\ Room(MaxCalls)
    /\ Fetch(Arg(location), "refresh")
    /\ UNCHANGED <<apiKey, pendingEffects, dashVars, parse, xform, otherVars>>

\* refreshWeatherData: fetchWeatherData()
RefreshWeatherData ==
    /\ Room(MaxCalls)
    /\ Fetch(NoArg, "refresh")
    /\ UNCHANGED <<apiKey, pendingEffects, dashVars, parse, xform, otherVars>>

InitialFetchEffect ==
    /\ EffectStep(MaxCalls)
    /\ UNCHANGED <<apiKey, dashVars, parse, xform, otherVars>>

GeocodeResponds ==
    /\ GeocodeStep
    /\ UNCHANGED <<apiKey, pendingEffects, dashVars, parse, xform, otherVars>>

CurrentWeatherResponds ==
    /\ CurrentWeatherStep
    /\ UNCHANGED <<apiKey, pendingEffects, dashVars, parse, xform, otherVars>>

ForecastResponds ==
    /\ ForecastStep
    /\ UNCHANGED <<apiKey, pendingEffects, dashVars, parse, xform, otherVars>>

\* handleDirectSearch, not running: its attempts, the attempt it is at, its local
\* `results`, `formatted`, the fetchWeatherData call it made and the requests its
\* searches issued
IdleSearch ==
    [pc |-> "idle", attempts |-> <<>>, i |-> 0, results |-> <<>>, formatted |-> <<>>,
     call |-> 0, log |-> <<>>]

\* handleLocationSelect, not running: the name of the suggestion it was given and
\* the fetchWeatherData call it made
IdleSelect == [pc |-> "idle", name |-> <<>>, call |-> 0]

\* handleGetCurrentLocation, not running, and useState<string | null>(null) of
\* geoError
IdleLocate == [pc |-> "idle", geoError |-> "null"]

\* useState(() => localStorage.getItem('weather-last-location') || default)
InitialLocation(stored) == IF stored # <<>> THEN stored ELSE StrDefaultLocation

InitHook ==
    /\ apiKey \in BOOLEAN
    /\ weatherData = MockData
    /\ isLoading = FALSE
    /\ error = "null"
    /\ lastUpdated = 0
    /\ calls = <<>>

\* parseLocation, not called
IdleParse ==
    [pc |-> "idle", s |-> <<>>, coords |-> NullCoords, searched |-> FALSE,
     log |-> <<>>, outcome |-> "none", results |-> <<>>]

\* no transform on its own
IdleTransform == [pc |-> "idle"]

\* mockData.ts, evaluated
IdleGen == [pc |-> "idle"]

\* no APIClient.get call on its own
IdleClient == [pc |-> "idle"]

\* localStorage without the key 'weather-app-settings'; an entry is <<settings>>
NoEntry == <<>>

\* DEFAULT_SETTINGS (defaultLocation is optional and absent)
DEFAULT_SETTINGS ==
    [units |-> "metric", language |-> "en", autoRefresh |-> TRUE,
     refreshInterval |-> 30, showNotifications |-> TRUE, theme |-> "auto",
     showDetailedMetrics |-> TRUE, chartAnimations |-> TRUE]

\* WeatherSettings after its mount effect: setApiKey(the saved key or ''), and
\* setSettings({ ...DEFAULT_SETTINGS, ...parsed }) when settings were saved; what
\* saveSettings stored has every key, so the spread yields what was stored.
\* callsAtSave is history: the number of fetchWeatherData calls that had been
\* issued when saveSettings last ran.
MountedSettings(saved, savedApp) ==
    [apiKey |-> saved,
     settings |-> IF savedApp = NoEntry THEN DEFAULT_SETTINGS ELSE savedApp[1],
     hasUnsavedChanges |-> FALSE, callsAtSave |-> 0]

\* the settings panel has saved no key
InitOthers ==
    /\ gen = IdleGen
    /\ client = IdleClient
    /\ savedApiKey = <<>>
    /\ savedSettings = NoEntry
    /\ settings = MountedSettings(savedApiKey, savedSettings)

Init ==
    /\ InitHook
    /\ lastLocation \in {<<>>, StrCoords}
    /\ location = InitialLocation(lastLocation)
    /\ pendingEffects = <<location>>
    /\ searchQuery = <<>>
    /\ toast = "none"
    /\ ds = IdleSearch
    /\ sel = IdleSelect
    /\ geoloc = IdleLocate
    /\ parse = IdleParse
    /\ xform = IdleTransform
    /\ InitOthers
    /\ clock = 0

Next ==
    \/ InitialFetchEffect
    \/ FetchWeatherData
    \/ RefreshWeatherData
    \/ GeocodeResponds
    \/ CurrentWeatherResponds
    \/ ForecastResponds

Spec == Init /\ [][Next]_vars

\* ------------------------------------------------------------------------
\* WeatherDashboard: handleDirectSearch, the Refresh button, the search box
\* ------------------------------------------------------------------------

\* the first character of s and what follows the white space it starts with
RECURSIVE DropWhitespace(_)
DropWhitespace(s) ==
    IF s # <<>> /\ Head(s) \in Whitespace THEN DropWhitespace(Tail(s)) ELSE s

\* s.replace(/\s+/g, ', ')
RECURSIVE CommaJoinWords(_)
CommaJoinWords(s) ==
    IF s = <<>> THEN <<>>
    ELSE IF Head(s) \in Whitespace THEN <<",", " ">> \o CommaJoinWords(DropWhitespace(s))
    ELSE <<Head(s)>> \o CommaJoinWords(Tail(s))

\* s.replace(/([A])([B])/g, '$1 $2') for character classes A and B: matches are
\* found from the left and do not overlap
RECURSIVE SpaceBetween(_, _, _)
SpaceBetween(s, A, B) ==
    IF Len(s) < 2 THEN s
    ELSE IF s[1] \in A /\ s[2] \in B
         THEN <<s[1], " ", s[2]>> \o SpaceBetween(SubSeq(s, 3, Len(s)), A, B)
    ELSE <<s[1]>> \o SpaceBetween(Tail(s), A, B)

\* .replace(/([a-z])([A-Z0-9])/g, '$1 $2').replace(/([0-9])([a-zA-Z])/g, '$1 $2')
SplitWords(s) ==
    SpaceBetween(SpaceBetween(s, Lower, Upper \cup Digits), Digits, Lower \cup Upper)

\* Attempts with the split of words tried before the commas
AttemptsSplitFirst(query) ==
    LET original == Trim(query)
    IN  << original,
           SplitWords(original),
           CommaJoinWords(original),
           CommaJoinWords(SplitWords(original)) >>

\* lines 277-285: the four queries handleDirectSearch tries, in order
Attempts(query) ==
    LET original == Trim(query)
    IN  << original,
           CommaJoinWords(original),
           SplitWords(original),
           CommaJoinWords(SplitWords(original)) >>

\* [loc.name, loc.state, loc.country].filter(Boolean).join(", ")
FormatPlace(loc) ==
    LET NonEmpty(x) == x # <<>>
    IN  Join(SelectSeq(<<loc.name, loc.state, loc.country>>, NonEmpty), <<",", " ">>)

\* `${loc.lat},${loc.lon}`
CoordString(loc) == NumToStr(loc.lat) \o <<",">> \o NumToStr(loc.lon)

\* The loop of lines 289-299 from attempt j on, up to its next request: an attempt
\* searchLocations answers with [] at once is passed over, and after the last
\* attempt the search has found nothing.
RECURSIVE TryFrom(_, _)
TryFrom(d, j) ==
    IF j > Len(d.attempts) THEN [d EXCEPT !.pc = "notfound", !.i = j]
    ELSE IF SearchIsEmpty(d.attempts[j]) THEN TryFrom(d, j + 1)
    ELSE [d EXCEPT !.pc = "search", !.i = j,
                   !.log = Append(@, GeoRequest(d.attempts[j], 1))]

\* lines 308-314: nothing was found
NotFoundToast == "Location not found"

\* SearchedInVain that also displays the query it found nothing for
SearchedInVainShowingQuery(d) ==
    /\ ds' = d
    /\ toast' = IF d.pc = "notfound" THEN NotFoundToast ELSE toast
    /\ location' = IF d.pc = "notfound" THEN d.attempts[1] ELSE location
    /\ UNCHANGED <<hookVars, pendingEffects, lastLocation, searchQuery, sel, geoloc>>

\* The dashboard after the direct search became d without having found a place:
\* it goes on searching, or it shows the toast
SearchedInVain(d) ==
    /\ ds' = d
    /\ toast' = IF d.pc = "notfound" THEN NotFoundToast ELSE toast
    /\ UNCHANGED <<hookVars, pendingEffects, location, lastLocation, searchQuery,
                   sel, geoloc>>

\* setLocation(name): a location that differs makes the hook's effect run again
SetLocation(name) ==
    /\ location' = name
    /\ pendingEffects' =
          IF name # location THEN Append(pendingEffects, name) ELSE pendingEffects

\* lines 305-307, after `await fetchWeatherData(coords)`
AfterDirectFetch ==
    /\ SetLocation(ds.formatted)
    /\ lastLocation' = ds.formatted
    /\ searchQuery' = <<>>
    /\ ds' = [ds EXCEPT !.pc = "done"]
    /\ UNCHANGED <<toast, sel, geoloc>>

\* lines 260-262, after `await fetchWeatherData(coords)`
AfterSelectFetch ==
    /\ SetLocation(sel.name)
    /\ lastLocation' = sel.name
    /\ searchQuery' = <<>>
    /\ sel' = [sel EXCEPT !.pc = "done"]
    /\ UNCHANGED <<toast, ds, geoloc>>

\* What the handlers waiting for a fetchWeatherData call do in the step in which
\* the call completes
Continuations ==
    IF ds.pc = "fetch" /\ calls'[ds.call].pc = "done"
    THEN AfterDirectFetch
    ELSE IF sel.pc = "fetch" /\ calls'[sel.call].pc = "done"
    THEN AfterSelectFetch
    ELSE UNCHANGED <<pendingEffects, dashVars>>

\* React runs the effects that are due before it handles a user's event
EffectsFlushed == pendingEffects = <<>>

\* None of the three location handlers is between its start and its end: the
\* model follows one invocation of them at a time
NoHandlerRunning ==
    /\ ds.pc \in {"idle", "notfound", "done"}
    /\ sel.pc \in {"idle", "done"}
    /\ geoloc.pc \in {"idle", "done"}

\* What the user types into the search box
QueryInputs == {StrParis, StrCamel}

\* The user types into the search box (disabled while isLoading)
TypeQuery ==
    /\ EffectsFlushed
    /\ ~isLoading
    /\ \E q \in QueryInputs : searchQuery' = q
    /\ UNCHANGED <<apiKey, hookVars, pendingEffects, location, lastLocation, toast, ds,
                   sel, geoloc,
                   parse, xform, otherVars>>

\* handleDirectSearch (the Search button, or Enter in the search box; both are
\* disabled while isLoading), up to its first request.  One invocation is
\* followed at a time.
HandleDirectSearch ==
    /\ EffectsFlushed
    /\ ~isLoading
    /\ NoHandlerRunning
    /\ Trim(searchQuery) # <<>>
    /\ SearchedInVain(TryFrom([IdleSearch EXCEPT !.attempts = Attempts(searchQuery)], 1))
    /\ UNCHANGED <<apiKey, parse, xform, otherVars>>

\* The search of the current attempt is answered: on a result, lines 300-304 call
\* fetchWeatherData with its coordinates; on none, the loop goes on
DirectSearchResponds ==
    /\ ds.pc = "search"
    /\ \E outcome \in Outcomes : \E answer \in GeoAnswers :
         /\ outcome = "failed" => answer = <<>>
         /\ LET results == SearchResults(ds.attempts[ds.i], outcome, answer)
            IN  IF Len(results) > 0
                THEN /\ Room(MaxDashCalls)
                     /\ Fetch(Arg(CoordString(results[1])), "direct")
                     /\ IF calls'[Len(calls')].pc = "done"
                        THEN /\ SetLocation(FormatPlace(results[1]))
                             /\ lastLocation' = FormatPlace(results[1])
                             /\ searchQuery' = <<>>
                             /\ ds' = [ds EXCEPT !.pc = "done", !.results = results,
                                                 !.formatted = FormatPlace(results[1]),
                                                 !.call = Len(calls')]
                             /\ UNCHANGED <<toast, sel, geoloc>>
                        ELSE /\ ds' = [ds EXCEPT !.pc = "fetch", !.results = results,
                                                 !.formatted = FormatPlace(results[1]),
                                                 !.call = Len(calls')]
                             /\ UNCHANGED <<pendingEffects, location, lastLocation,
                                            searchQuery, toast, sel, geoloc>>
                ELSE SearchedInVain(TryFrom([ds EXCEPT !.results = results], ds.i + 1))
    /\ UNCHANGED <<apiKey, parse, xform, otherVars>>

\* The Refresh button (disabled while isLoading): refreshWeatherData
ClickRefresh ==
    /\ EffectsFlushed
    /\ ~isLoading
    /\ Room(MaxDashCalls)
    /\ Fetch(NoArg, "refresh")
    /\ UNCHANGED <<apiKey, pendingEffects, dashVars, parse, xform, otherVars>>

\* The hook's effect runs for a value of `location`
LocationEffect ==
    /\ EffectStep(MaxDashCalls)
    /\ UNCHANGED <<apiKey, dashVars, parse, xform, otherVars>>

DashGeocodeResponds ==
    /\ GeocodeStep
    /\ Continuations
    /\ UNCHANGED <<apiKey, parse, xform, otherVars>>

DashCurrentWeatherResponds ==
    /\ CurrentWeatherStep
    /\ Continuations
    /\ UNCHANGED <<apiKey, parse, xform, otherVars>>

DashForecastResponds ==
    /\ ForecastStep
    /\ Continuations
    /\ UNCHANGED <<apiKey, parse, xform, otherVars>>

NextDash ==
    \/ LocationEffect
    \/ TypeQuery
    \/ HandleDirectSearch
    \/ DirectSearchResponds
    \/ ClickRefresh
    \/ DashGeocodeResponds
    \/ DashCurrentWeatherResponds
    \/ DashForecastResponds

SpecDash == Init /\ [][NextDash]_vars

\* ------------------------------------------------------------------------
\* WeatherDashboard: handleLocationSelect and handleGetCurrentLocation
\* ------------------------------------------------------------------------

\* useLocationSearch line 109: the name of a suggestion
SuggestionName(loc) ==
    loc.name \o (IF loc.state # <<>> THEN <<",", " ">> \o loc.state ELSE <<>>)
             \o (IF loc.country # <<>> THEN <<",", " ">> \o loc.country ELSE <<>>)

\* lines 103-115: a suggestion of the search box
Suggestion(loc) == [name |-> SuggestionName(loc), originalLocation |-> loc]

\* the suggestions the user can pick
Suggestions == {Suggestion(g) : g \in GeoDirectory}

\* Number.prototype.toFixed(2): two decimals, the nearest (the numbers of the
\* model are not half-way between two)
ToFixed2(x) ==
    LET a      == IF x.m < 0 THEN 0 - x.m ELSE x.m
        cents  == IF x.e <= 2 THEN a * Pow10(2 - x.e)
                  ELSE (a + Pow10(x.e - 2) \div 2) \div Pow10(x.e - 2)
        sign   == IF x.m < 0 THEN <<"-">> ELSE <<>>
    IN  sign \o NatToStr(cents \div 100) \o <<".">> \o ZeroPad(NatToStr(cents % 100), 2)

\* `${latitude.toFixed(2)},${longitude.toFixed(2)}`
PositionString(pos) == ToFixed2(pos.lat) \o <<",">> \o ToFixed2(pos.lon)

\* What navigator.geolocation can report: a position
Positions == { Coords(Dec(62, 1), Dec(6526, 3)) }

\* lines 334-340: the message of a failed lookup
GeoErrors == {"Geolocation failed."}

\* handleLocationSelect(selectedLocation), up to the end of the turn in which it
\* calls fetchWeatherData with the coordinates of the suggestion
HandleLocationSelect ==
    /\ EffectsFlushed
    /\ NoHandlerRunning
    /\ Room(MaxDashCalls)
    /\ \E s \in Suggestions :
         /\ Fetch(Arg(CoordString(s.originalLocation)), "select")
         /\ IF calls'[Len(calls')].pc = "done"
            THEN /\ SetLocation(s.name)
                 /\ lastLocation' = s.name
                 /\ searchQuery' = <<>>
                 /\ sel' = [pc |-> "done", name |-> s.name, call |-> Len(calls')]
            ELSE /\ sel' = [pc |-> "fetch", name |-> s.name, call |-> Len(calls')]
                 /\ UNCHANGED <<pendingEffects, location, lastLocation, searchQuery>>
    /\ UNCHANGED <<apiKey, toast, ds, geoloc, parse, xform, otherVars>>

\* handleGetCurrentLocation (the button is disabled while isLoading), up to its
\* await of getCurrentLocation()
HandleGetCurrentLocation ==
    /\ EffectsFlushed
    /\ ~isLoading
    /\ NoHandlerRunning
    /\ geoloc' = [pc |-> "locating", geoError |-> "null"]
    /\ UNCHANGED <<apiKey, hookVars, pendingEffects, location, lastLocation,
                   searchQuery, toast, ds, sel, parse, xform, otherVars>>

\* The browser reports a position: lines 329-332 set the location, store it and
\* call fetchWeatherData with it
PositionFound ==
    /\ geoloc.pc = "locating"
    /\ Room(MaxDashCalls)
    /\ \E pos \in Positions :
         /\ SetLocation(PositionString(pos))
         /\ lastLocation' = PositionString(pos)
         /\ Fetch(Arg(PositionString(pos)), "geolocation")
    /\ geoloc' = [geoloc EXCEPT !.pc = "done"]
    /\ UNCHANGED <<apiKey, searchQuery, toast, ds, sel, parse, xform, otherVars>>

\* The lookup fails: lines 333-342 set geoError
PositionFailed ==
    /\ geoloc.pc = "locating"
    /\ \E msg \in GeoErrors : geoloc' = [pc |-> "done", geoError |-> msg]
    /\ UNCHANGED <<apiKey, hookVars, pendingEffects, location, lastLocation,
                   searchQuery, toast, ds, sel, parse, xform, otherVars>>

\* ------------------------------------------------------------------------
\* parseLocation on its own, for every string up to MaxLen characters
\* ------------------------------------------------------------------------

ParseAlphabet == {"0", "5", "-", ".", ",", " ", "a"}

ParseInputs == UNION {[1..n -> ParseAlphabet] : n \in 0..MaxLen}

InitParse ==
    /\ InitHook
    /\ lastLocation = <<>>
    /\ location = InitialLocation(lastLocation)
    /\ pendingEffects = <<>>
    /\ searchQuery = <<>>
    /\ toast = "none"
    /\ ds = IdleSearch
    /\ sel = IdleSelect
    /\ geoloc = IdleLocate
    /\ \E s \in ParseInputs : parse = [IdleParse EXCEPT !.pc = "input", !.s = s]
    /\ xform = IdleTransform
    /\ InitOthers
    /\ clock = 0

\* parseLocation(s) is called and runs until it returns or waits for its search
ParseLocationCalled ==
    /\ parse.pc = "input"
    /\ LET p == ParseLocation(parse.s)
       IN  parse' = [parse EXCEPT !.pc = IF p.wait THEN "search" ELSE "done",
                                  !.coords = p.coords,
                                  !.searched = p.searched,
                                  !.log = p.log]
    /\ UNCHANGED <<apiKey, hookVars, pendingEffects, dashVars, xform, otherVars>>

\* the search of parseLocation is answered, and parseLocation returns
ParseSearchResponds ==
    /\ parse.pc = "search"
    /\ \E outcome \in Outcomes : \E answer \in GeoAnswers :
         /\ outcome = "failed" => answer = <<>>
         /\ LET results == SearchResults(parse.s, outcome, answer)
            IN  parse' = [parse EXCEPT !.pc = "done",
                                       !.outcome = outcome,
                                       !.results = results,
                                       !.coords = FirstResultCoords(results)]
    /\ UNCHANGED <<apiKey, hookVars, pendingEffects, dashVars, xform, otherVars>>

NextParse ==
    \/ ParseLocationCalled
    \/ ParseSearchResponds

SpecParse == InitParse /\ [][NextParse]_vars

\* ------------------------------------------------------------------------
\* transformWeatherData and transformForecastData on the values of a response
\* ------------------------------------------------------------------------

\* WeatherCondition (types/weather.ts)
WeatherConditions ==
    {"sunny", "cloudy", "rainy", "snowy", "windy", "partly-cloudy", "thunderstorm",
     "fog"}

\* the value of a property that is not there
Undefined == "[undefined]"

\* the value of a property an object literal inherits: a function, or for
\* __proto__ the prototype object; truthy, and not a string
InheritedMember == "[member of Object.prototype]"

\* the properties every object literal inherits from Object.prototype
ObjectPrototypeKeys ==
    {"constructor", "toString", "toLocaleString", "valueOf", "hasOwnProperty",
     "isPrototypeOf", "propertyIsEnumerable", "__proto__"}

\* iconMapping of transformWeatherData
CurrentIconMapping ==
    [code \in {"01d", "01n"} |-> "sunny"] @@
    [code \in {"02d", "02n"} |-> "partly-cloudy"] @@
    [code \in {"03d", "03n", "04d", "04n"} |-> "cloudy"] @@
    [code \in {"09d", "09n", "10d", "10n"} |-> "rainy"] @@
    [code \in {"11d", "11n"} |-> "thunderstorm"] @@
    [code \in {"13d", "13n"} |-> "snowy"] @@
    [code \in {"50d", "50n"} |-> "fog"]

\* iconMapping of transformForecastData
ForecastIconMapping ==
    [code \in {"01d", "01n"} |-> "sunny"] @@
    [code \in {"02d", "02n"} |-> "partly-cloudy"] @@
    [code \in {"03d", "03n", "04d", "04n"} |-> "cloudy"] @@
    [code \in {"09d", "09n", "10d", "10n"} |-> "rainy"] @@
    [code \in {"11d", "11n"} |-> "thunderstorm"] @@
    [code \in {"13d", "13n"} |-> "snowy"] @@
    [code \in {"50d", "50n"} |-> "fog"]

\* iconMapping[code]: a property of the object literal itself, or one it inherits
\* through its prototype chain, or undefined
Lookup(iconMapping, code) ==
    IF code \in DOMAIN iconMapping THEN iconMapping[code]
    ELSE IF code \in ObjectPrototypeKeys THEN InheritedMember
    ELSE Undefined

\* iconMapping[code] || 'sunny'
IconOf(iconMapping, code) ==
    IF Lookup(iconMapping, code) = Undefined THEN "sunny"
    ELSE Lookup(iconMapping, code)

\* Math.round(n / d) for integers n and d > 0: the nearest integer, a half upwards
MathRound(n, d) == (2 * n + d) \div (2 * d)

\* Math.max and Math.min of two numbers
MathMax(a, b) == IF a >= b THEN a ELSE b

MathMin(a, b) == IF a <= b THEN a ELSE b

\* the parts of a degree a bearing is given in (degrees = q / WindResolution)
WindResolution == 4

\* temperatures are in tenths of a degree
TempUnit == 10

\* probabilities of precipitation (item.pop, 0 to 1) are in thousandths
PopUnit == 1000

\* directions of getWindDirection
Directions ==
    <<"N", "NNE", "NE", "ENE", "E", "ESE", "SE", "SSE",
      "S", "SSW", "SW", "WSW", "W", "WNW", "NW", "NNW">>

\* Math.floor in place of Math.round
GetWindDirectionFloor(q) ==
    Directions[(((2 * q) \div (45 * WindResolution)) % 16) + 1]

\* getWindDirection(degrees), degrees = q / WindResolution:
\* directions[Math.round(degrees / 22.5) % 16]
GetWindDirection(q) ==
    Directions[(MathRound(2 * q, 45 * WindResolution) % 16) + 1]

\* an optional number of a response: absent, or n (in the unit of its field)
Absent == [given |-> FALSE, n |-> 0]

Given(n) == [given |-> TRUE, n |-> n]

\* x || 0
OrZero(x) == IF x.given THEN x.n ELSE 0

\* transformWeatherData(apiData): the fields it computes (the others are copied
\* from the response or are constants)
TransformWeatherData(apiData) ==
    [current |-> [temperature   |-> MathRound(apiData.temp, TempUnit),
                  icon          |-> IconOf(CurrentIconMapping, apiData.icon),
                  windDirection |-> GetWindDirection(OrZero(apiData.deg))],
     hourly  |-> <<>>,
     daily   |-> <<>>]

\* the pops, in thousandths, whose product with 100 is just below a half in the
\* double arithmetic of the source where it is that half in exact arithmetic
\* (0.285 * 100 is 28.499999999999996)
BelowHalfInDoubles == {145, 285, 565, 575}

\* Math.round((item.pop || 0) * 100)
PrecipitationOf(item) ==
    IF OrZero(item.pop) \in BelowHalfInDoubles
    THEN (100 * OrZero(item.pop)) \div PopUnit
    ELSE MathRound(100 * OrZero(item.pop), PopUnit)

\* apiData.list.slice(0, 8)
HourlyCount == 8

\* Object.values(daysMap).slice(0, 7)
DailyCount == 7

SecondsPerDay == 86400

\* the weekday names of toLocaleDateString(undefined, { weekday: 'short' }),
\* from Sunday on, in an English locale
Weekdays == <<"Sun", "Mon", "Tue", "Wed", "Thu", "Fri", "Sat">>

\* the weekday of new Date(dt * 1000) in a browser whose time zone is UTC:
\* 1 January 1970 was a Thursday
WeekdayShort(dt) == Weekdays[(((dt \div SecondsPerDay) + 4) % 7) + 1]

\* slice that cuts nothing off
SliceWhole(s, n) == s

\* the first n elements of a sequence: slice(0, n)
Slice(s, n) == SubSeq(s, 1, MathMin(n, Len(s)))

\* date.getHours() of new Date(dt * 1000) in a browser whose time zone is UTC
GetHours(dt) == (dt \div 3600) % 24

\* date.toLocaleTimeString([], { hour: '2-digit', minute: '2-digit' }) in an
\* English (US) locale: hh:mm AM or PM
ToLocaleTimeString(dt) ==
    LET hour == GetHours(dt)
        h12  == IF hour % 12 = 0 THEN 12 ELSE hour % 12
    IN  ZeroPad(NatToStr(h12), 2) \o <<":">> \o ZeroPad(NatToStr((dt \div 60) % 60), 2)
            \o <<" ">> \o (IF hour >= 12 THEN <<"P", "M">> ELSE <<"A", "M">>)

\* HourlyOf that compares the hours of a 12-hour clock
HourlyOfHalfDay(item, nowHour) ==
    [time          |-> IF GetHours(item.dt) % 12 = nowHour % 12
                       THEN <<"N", "o", "w">> ELSE ToLocaleTimeString(item.dt),
     temperature   |-> MathRound(item.temp, TempUnit),
     icon          |-> IconOf(ForecastIconMapping, item.icon),
     precipitation |-> PrecipitationOf(item)]

\* one element of hourly, nowHour being new Date(now).getHours()
HourlyOf(item, nowHour) ==
    [time          |-> IF GetHours(item.dt) = nowHour
                       THEN <<"N", "o", "w">> ELSE ToLocaleTimeString(item.dt),
     temperature   |-> MathRound(item.temp, TempUnit),
     icon          |-> IconOf(ForecastIconMapping, item.icon),
     precipitation |-> PrecipitationOf(item)]

\* daysMap[day] of the first item of a day
NewDay(item) ==
    [day           |-> WeekdayShort(item.dt),
     high          |-> item.temp_max,
     low           |-> item.temp_min,
     icon          |-> IconOf(ForecastIconMapping, item.icon),
     precipitation |-> PrecipitationOf(item),
     description   |-> item.description]

\* the else branch of lines 623-632 for the day's entry d
UpdatedDay(d, item) ==
    LET e == [d EXCEPT !.high = MathMax(d.high, item.temp_max),
                       !.low  = MathMin(d.low, item.temp_min)]
    IN  IF OrZero(item.pop) > e.precipitation * PopUnit
        THEN [e EXCEPT !.icon = IconOf(ForecastIconMapping, item.icon),
                       !.description = item.description,
                       !.precipitation = PrecipitationOf(item)]
        ELSE e

\* high and low follow only the item that takes the icon over
AddToDayWhenWetter(days, item) ==
    LET at == {k \in 1..Len(days) : days[k].day = WeekdayShort(item.dt)}
    IN  IF at = {} THEN Append(days, NewDay(item))
        ELSE [k \in 1..Len(days) |->
                 IF k \in at /\ OrZero(item.pop) > days[k].precipitation * PopUnit
                 THEN UpdatedDay(days[k], item)
                 ELSE days[k]]

\* a new day goes in front of the others
AddToDayInFront(days, item) ==
    LET at == {k \in 1..Len(days) : days[k].day = WeekdayShort(item.dt)}
    IN  IF at = {} THEN <<NewDay(item)>> \o days
        ELSE [k \in 1..Len(days) |->
                 IF k \in at THEN UpdatedDay(days[k], item) ELSE days[k]]

\* One turn of the forEach of lines 608-633.  daysMap is the sequence of its
\* values in the order their keys were added, which is the order of Object.values
AddToDay(days, item) ==
    LET at == {k \in 1..Len(days) : days[k].day = WeekdayShort(item.dt)}
    IN  IF at = {} THEN Append(days, NewDay(item))
        ELSE [k \in 1..Len(days) |->
                 IF k \in at THEN UpdatedDay(days[k], item) ELSE days[k]]

\* daysMap after the first n items of the list
RECURSIVE DaysMap(_, _)
DaysMap(list, n) ==
    IF n = 0 THEN <<>> ELSE AddToDay(DaysMap(list, n - 1), list[n])

\* transformForecastData(apiData) for a list that is not empty: the fields it
\* computes (the others are copied from the response or are constants)
TransformForecastData(apiData) ==
    [current |-> [temperature   |-> MathRound(apiData.list[1].temp, TempUnit),
                  icon          |-> IconOf(ForecastIconMapping, apiData.list[1].icon),
                  windDirection |-> ""],
     hourly  |-> [k \in 1..Len(Slice(apiData.list, HourlyCount)) |->
                     HourlyOf(apiData.list[k], clock)],
     daily   |-> Slice(DaysMap(apiData.list, Len(apiData.list)), DailyCount)]

\* ------------------------------------------------------------------------
\* The responses the transforms are given
\* ------------------------------------------------------------------------

\* the largest bearing, in degrees
MaxWindDeg == 360

\* the longest list of a forecast response
MaxEntries == 3

\* the days a forecast response of one item a day covers, and its longest list
MaxDays == 9

\* weather[0].icon: the codes of the table, codes that are not in it, and names
\* of inherited properties ("undefined" is also the key of an absent icon)
IconInputs ==
    DOMAIN CurrentIconMapping
        \cup {"01", "1d", "99x", "undefined", "constructor", "toString"}

\* wind.deg: absent, or a bearing from 0 to MaxWindDeg degrees
WindInputs == {Absent} \cup {Given(q) : q \in 0..(MaxWindDeg * WindResolution)}

\* main.temp
TempInputs == {-15, 215}

\* the current-weather responses: every icon with some bearings, and every
\* bearing with one icon
CurrentInputs ==
    [temp : TempInputs, icon : IconInputs, deg : {Absent, Given(0), Given(1)}]
        \cup [temp : {215}, icon : {"10d"}, deg : WindInputs]

\* main.temp, main.temp_min and main.temp_max of a forecast item; the last one
\* is not a reading the service would send (its minimum is above its maximum)
Readings ==
    { [temp |-> 205, temp_min |-> 180, temp_max |-> 231],
      [temp |-> -15, temp_min |-> -40, temp_max |-> -15],
      [temp |-> 100, temp_min |-> 120, temp_max |-> 90] }

\* dt: noon of 1 January 1970 (a Thursday) and of the day after
DtInputs == {43200, 129600}

\* weather[0].description of the items of the model, which goes with their icon
DescriptionInput(icon) ==
    IF icon = "10d" THEN "light rain"
    ELSE IF icon = "01n" THEN "clear sky"
    ELSE "mist"

\* the forecast items of the lists of more than one item: the rainy ones are
\* the ones with a probability of precipitation
Items ==
    {[dt |-> dt, temp |-> r.temp, temp_min |-> r.temp_min, temp_max |-> r.temp_max,
      pop |-> pop, icon |-> IF pop = Absent THEN "01n" ELSE "10d",
      description |-> DescriptionInput(IF pop = Absent THEN "01n" ELSE "10d")] :
        dt \in DtInputs, r \in Readings, pop \in {Absent, Given(400)}}

\* the forecast items with any icon
ItemsOfAnyIcon ==
    {[dt |-> 43200, temp |-> 205, temp_min |-> 180, temp_max |-> 231,
      pop |-> Given(5), icon |-> icon, description |-> DescriptionInput(icon)] :
        icon \in IconInputs}

\* the forecast items of one day with any probability of precipitation, from
\* 0 to 1: pop
ItemsOfAnyPop ==
    {[dt |-> 43200, temp |-> 205, temp_min |-> 180, temp_max |-> 231,
      pop |-> pop, icon |-> "50d", description |-> DescriptionInput("50d")] :
        pop \in {Absent} \cup {Given(n) : n \in 0..PopUnit}}

\* the probabilities of precipitation of the lists of rainy items
PopInputs == {Absent, Given(4), Given(5), Given(400), Given(900)}

\* the forecast items of one day that differ in their probability of
\* precipitation and their icon
RainItems ==
    {[dt |-> 43200, temp |-> 205, temp_min |-> 180, temp_max |-> 231,
      pop |-> pop, icon |-> icon, description |-> DescriptionInput(icon)] :
        pop \in PopInputs, icon \in {"10d", "01n"}}

\* the forecast item of noon of day number `day` after 1 January 1970
ItemOfDay(day) ==
    [dt |-> day * SecondsPerDay + 43200, temp |-> 205 + 10 * day,
     temp_min |-> 180 - 10 * day, temp_max |-> 231 + 10 * day,
     pop |-> Absent, icon |-> "02d", description |-> DescriptionInput("02d")]

\* lists of up to MaxDays items that go through MaxDays days from day `from` on
\* in steps of `step` days, starting again at the first of the days after the last
DayLists ==
    {[k \in 1..n |-> ItemOfDay((from + k * step) % MaxDays)] :
        from \in 0..(MaxDays - 1), step \in 1..(MaxDays - 1), n \in 1..MaxDays}

\* the forecast item of `hours` hours after the start of 1 January 1970
ItemOfHour(hours) ==
    [dt |-> hours * 3600, temp |-> 205, temp_min |-> 180, temp_max |-> 231,
     pop |-> Absent, icon |-> "02d", description |-> DescriptionInput("02d")]

\* lists of up to MaxDays items 3 hours apart, as the service sends them, from
\* any hour of the day on
HourLists ==
    {[k \in 1..n |-> ItemOfHour(from + 3 * (k - 1))] : from \in 0..23, n \in 1..MaxDays}

\* lists of two items a week apart: noon of 1 and of 8 January 1970
WeekApartLists ==
    {<< [dt |-> 43200, temp |-> a.temp, temp_min |-> a.temp_min,
         temp_max |-> a.temp_max, pop |-> Absent, icon |-> "01n",
         description |-> DescriptionInput("01n")],
        [dt |-> 43200 + 7 * SecondsPerDay, temp |-> b.temp, temp_min |-> b.temp_min,
         temp_max |-> b.temp_max, pop |-> Absent, icon |-> "01n",
         description |-> DescriptionInput("01n")] >> : a \in Readings, b \in Readings}

\* the forecast responses: lists of up to MaxEntries items
ForecastInputs ==
    {[list |-> <<i>>] : i \in ItemsOfAnyIcon \cup ItemsOfAnyPop}
        \cup {[list |-> l] : l \in UNION {[1..n -> Items] : n \in 1..MaxEntries}}
        \cup {[list |-> l] : l \in UNION {[1..n -> RainItems] : n \in 2..MaxEntries}}
        \cup {[list |-> l] : l \in DayLists}
        \cup {[list |-> l] : l \in WeekApartLists}

InitTransform ==
    /\ apiKey = TRUE
    /\ weatherData = MockData
    /\ isLoading = FALSE
    /\ error = "null"
    /\ lastUpdated = 0
    /\ calls = <<>>
    /\ lastLocation = <<>>
    /\ location = InitialLocation(lastLocation)
    /\ pendingEffects = <<>>
    /\ searchQuery = <<>>
    /\ toast = "none"
    /\ ds = IdleSearch
    /\ sel = IdleSelect
    /\ geoloc = IdleLocate
    /\ parse = IdleParse
    /\ InitOthers
    /\ \/ \E a \in CurrentInputs : xform = [pc |-> "current", input |-> a] /\ clock = 0
       \/ \E a \in ForecastInputs :
             xform = [pc |-> "forecast", input |-> a] /\ clock \in {0, 12}
       \/ \E a \in HourLists :
             xform = [pc |-> "forecast", input |-> [list |-> a]] /\ clock \in 0..23

\* getCurrentWeather: return transformWeatherData(data)
TransformCurrent ==
    /\ xform.pc = "current"
    /\ xform' = [pc |-> "current-done", input |-> xform.input,
                 output |-> TransformWeatherData(xform.input)]
    /\ UNCHANGED <<apiKey, hookVars, pendingEffects, dashVars, parse, otherVars>>

\* getForecast: return transformForecastData(data)
TransformForecast ==
    /\ xform.pc = "forecast"
    /\ xform' = [pc |-> "forecast-done", input |-> xform.input,
                 output |-> TransformForecastData(xform.input)]
    /\ UNCHANGED <<apiKey, hookVars, pendingEffects, dashVars, parse, otherVars>>

NextTransform ==
    \/ TransformCurrent
    \/ TransformForecast

SpecTransform == InitTransform /\ [][NextTransform]_vars

\* ------------------------------------------------------------------------
\* mockData.ts: generate24HourForecast and mockWeatherData
\* ------------------------------------------------------------------------

\* weatherPatterns
WeatherPatterns ==
    <<"sunny", "sunny", "cloudy", "cloudy", "rainy", "partly-cloudy",
      "sunny", "cloudy", "partly-cloudy", "rainy", "sunny", "cloudy">>

\* for (let i = 0; i < 24; i++)
HoursGenerated == 24

StrNow == <<"N", "o", "w">>

\* `${displayHour} ${isPM ? 'PM' : 'AM'}` of lines 27-30
ClockLabel(hour) ==
    LET displayHour == IF hour = 0 THEN 12 ELSE IF hour > 12 THEN hour - 12 ELSE hour
    IN  NatToStr(displayHour) \o <<" ">>
            \o (IF hour >= 12 THEN <<"P", "M">> ELSE <<"A", "M">>)

\* "Now" for every twelfth hour
TimeStringEveryTwelfth(i, hour) == IF i % 12 = 0 THEN StrNow ELSE ClockLabel(hour)

\* timeString of lines 23-31
TimeString(i, hour) == IF i = 0 THEN StrNow ELSE ClockLabel(hour)

\* the draws of Math.random() are hundredths, from 0.00 to 0.99
DrawUnit == 100

\* Math.random(), in hundredths: draw number n of a run whose draws start at
\* `seed` and go on in steps of `stride`
Random(g, n) == (g.seed + g.stride * n) % DrawUnit

\* MockPrecipitation with 60 + Math.random() * 40 for a rainy hour
MockPrecipitationWide(icon, u) ==
    IF icon = "rainy" THEN MathRound(60 * DrawUnit + 40 * u, DrawUnit)
    ELSE IF icon = "cloudy" THEN MathRound(20 * u, DrawUnit)
    ELSE IF icon = "partly-cloudy" THEN MathRound(10 * u, DrawUnit)
    ELSE 0

\* Math.round(precipitation) of lines 51-64 and 75 for a draw of u hundredths
MockPrecipitation(icon, u) ==
    IF icon = "rainy" THEN MathRound(60 * DrawUnit + 30 * u, DrawUnit)
    ELSE IF icon = "cloudy" THEN MathRound(20 * u, DrawUnit)
    ELSE IF icon = "partly-cloudy" THEN MathRound(10 * u, DrawUnit)
    ELSE 0

\* The entry that turn i of the loop pushes: its time, icon and precipitation
\* (temperature, humidity, pressure and windSpeed are numbers drawn at random
\* that nothing else depends on).  forecastTime.getHours() is the hour of the day
\* i hours after now.
MockHour(g, i) ==
    LET hour == (g.currentHour + i) % 24
        icon == WeatherPatterns[((i + ((3 * Random(g, 2 * i)) \div DrawUnit))
                                    % Len(WeatherPatterns)) + 1]
    IN  [time          |-> TimeString(i, hour),
         icon          |-> icon,
         precipitation |-> MockPrecipitation(icon, Random(g, 2 * i + 1))]

\* mockWeatherData.daily
MockDaily ==
    << [day |-> "Today", high |-> 78, low |-> 55, icon |-> "rainy", precipitation |-> 60],
       [day |-> "Tue", high |-> 82, low |-> 58, icon |-> "sunny", precipitation |-> 0],
       [day |-> "Wed", high |-> 79, low |-> 56, icon |-> "cloudy", precipitation |-> 20],
       [day |-> "Thu", high |-> 75, low |-> 52, icon |-> "rainy", precipitation |-> 80],
       [day |-> "Fri", high |-> 71, low |-> 48, icon |-> "rainy", precipitation |-> 90],
       [day |-> "Sat", high |-> 73, low |-> 50, icon |-> "cloudy", precipitation |-> 30],
       [day |-> "Sun", high |-> 77, low |-> 54, icon |-> "sunny", precipitation |-> 10] >>

\* the first draw of a run
DrawSeeds == {0, 9, 25, 33, 50, 66, 75, 90, 98, 99}

\* The module starts to load at any hour of the day, with any run of draws
InitMock ==
    /\ apiKey \in BOOLEAN
    /\ weatherData = MockData
    /\ isLoading = FALSE
    /\ error = "null"
    /\ lastUpdated = 0
    /\ calls = <<>>
    /\ lastLocation = <<>>
    /\ location = InitialLocation(lastLocation)
    /\ pendingEffects = <<>>
    /\ searchQuery = <<>>
    /\ toast = "none"
    /\ ds = IdleSearch
    /\ sel = IdleSelect
    /\ geoloc = IdleLocate
    /\ parse = IdleParse
    /\ xform = IdleTransform
    /\ client = IdleClient
    /\ savedApiKey = <<>>
    /\ savedSettings = NoEntry
    /\ settings = MountedSettings(savedApiKey, savedSettings)
    /\ clock = 0
    /\ \E h \in 0..23 : \E seed \in DrawSeeds : \E stride \in {0, 1, 37, 71} :
          gen = [pc |-> "loop", currentHour |-> h, seed |-> seed, stride |-> stride,
                 i |-> 0, forecast |-> <<>>, hourly |-> <<>>, daily |-> <<>>]

\* one turn of the loop of generate24HourForecast
GenerateHour ==
    /\ gen.pc = "loop"
    /\ gen.i < HoursGenerated
    /\ gen' = [gen EXCEPT !.i = @ + 1, !.forecast = Append(@, MockHour(gen, gen.i))]
    /\ UNCHANGED <<apiKey, hookVars, pendingEffects, dashVars, parse, xform, client,
                   savedApiKey, savedSettings, settings, clock>>

\* the loop is over: generate24HourForecast returns, and mockWeatherData is made
MockWeatherDataMade ==
    /\ gen.pc = "loop"
    /\ gen.i >= HoursGenerated
    /\ gen' = [gen EXCEPT !.pc = "done", !.hourly = gen.forecast, !.daily = MockDaily]
    /\ UNCHANGED <<apiKey, hookVars, pendingEffects, dashVars, parse, xform, client,
                   savedApiKey, savedSettings, settings, clock>>

NextMock ==
    \/ GenerateHour
    \/ MockWeatherDataMade

SpecMock == InitMock /\ [][NextMock]_vars

\* ------------------------------------------------------------------------
\* APIClient: get and request
\* ------------------------------------------------------------------------

\* JSON values of a body: null, or an object with or without a message
JsonNull == [type |-> "null", has |-> FALSE, message |-> <<>>]

JsonObject(has, message) == [type |-> "object", has |-> has, message |-> message]

\* a body that is JSON, and one response.json() rejects with a SyntaxError
JsonBody(value) == [parses |-> TRUE, value |-> value, error |-> <<>>]

StrSyntaxError == <<"b", "a", "d", " ", "J", "S", "O", "N">>

NoJsonBody == [parses |-> FALSE, value |-> JsonNull, error |-> StrSyntaxError]

StrInvalidKey == <<"I", "n", "v", "a", "l", "i", "d", " ", "k", "e", "y">>

StrFailedToFetch == <<"F", "a", "i", "l", "e", "d">>

\* What fetch(url) settles as: a rejection with a TypeError (the network failed),
\* or a response with a status, a status text and a body
NetworkFailure == [kind |-> "rejected", status |-> 0, statusText |-> <<>>,
                   body |-> NoJsonBody, error |-> StrFailedToFetch]

Response(status, statusText, body) ==
    [kind |-> "response", status |-> status, statusText |-> statusText,
     body |-> body, error |-> <<>>]

Bodies ==
    {NoJsonBody, JsonBody(JsonNull), JsonBody(JsonObject(FALSE, <<>>)),
     JsonBody(JsonObject(TRUE, <<>>)), JsonBody(JsonObject(TRUE, StrInvalidKey))}

Statuses ==
    { <<200, <<"O", "K">>>>, <<204, <<>>>>, <<401, <<"N", "o">>>>, <<404, <<>>>>,
      <<500, <<"E", "r", "r">>>> }

Responses ==
    {NetworkFailure} \cup {Response(st[1], st[2], b) : st \in Statuses, b \in Bodies}

\* response.ok
Ok(response) == response.status >= 200 /\ response.status <= 299

\* new WeatherAPIError(message, statusCode)
WeatherAPIError(message, statusCode) ==
    [returned |-> FALSE, value |-> JsonNull, name |-> "WeatherAPIError",
     message |-> message, statusCode |-> statusCode]

\* a value that request returns
Returned(value) ==
    [returned |-> TRUE, value |-> value, name |-> "", message |-> <<>>,
     statusCode |-> Absent]

\* `HTTP ${response.status}: ${response.statusText}`
DefaultErrorMessage(response) ==
    <<"H", "T", "T", "P", " ">> \o NatToStr(response.status) \o <<":", " ">>
        \o response.statusText

\* the message of lines 301-308 with no look at the body
ErrorMessageIgnoringBody(response) == DefaultErrorMessage(response)

\* Lines 301-308: errorData.message || errorMessage when response.json()
\* resolves; the default when it rejects, or when reading errorData.message
\* throws (errorData is null)
ErrorMessage(response) ==
    IF /\ response.body.parses
       /\ response.body.value.type = "object"
       /\ response.body.value.has
       /\ response.body.value.message # <<>>
    THEN response.body.value.message
    ELSE DefaultErrorMessage(response)

\* request(url), once fetch has settled as `response`
RequestResult(response) ==
    IF response.kind = "rejected" THEN WeatherAPIError(response.error, Absent)
    ELSE IF ~Ok(response)
    THEN WeatherAPIError(ErrorMessage(response), Given(response.status))
    ELSE IF response.body.parses THEN Returned(response.body.value)
    ELSE WeatherAPIError(response.body.error, Absent)

\* the calls of apiClient.get in the services
ClientRequests ==
    {Request("geo", StrParis, 1, NaN, NaN, FALSE),
     Request("weather", <<>>, 0, Dec(45, 1), Dec(-7, 0), FALSE),
     Request("forecast", <<>>, 0, Dec(45, 1), Dec(-7, 0), FALSE)}

InitClient ==
    /\ apiKey \in BOOLEAN
    /\ weatherData = MockData
    /\ isLoading = FALSE
    /\ error = "null"
    /\ lastUpdated = 0
    /\ calls = <<>>
    /\ lastLocation = <<>>
    /\ location = InitialLocation(lastLocation)
    /\ pendingEffects = <<>>
    /\ searchQuery = <<>>
    /\ toast = "none"
    /\ ds = IdleSearch
    /\ sel = IdleSelect
    /\ geoloc = IdleLocate
    /\ parse = IdleParse
    /\ xform = IdleTransform
    /\ gen = IdleGen
    /\ savedApiKey = <<>>
    /\ savedSettings = NoEntry
    /\ settings = MountedSettings(savedApiKey, savedSettings)
    /\ clock = 0
    /\ \E r \in ClientRequests : client = [pc |-> "called", params |-> r]

\* get(endpoint, params): params.appid is added when there is a key, and
\* request(url) calls fetch
ClientGet ==
    /\ client.pc = "called"
    /\ client' = [pc |-> "fetch", url |-> [client.params EXCEPT !.appid = apiKey]]
    /\ UNCHANGED <<apiKey, hookVars, pendingEffects, dashVars, parse, xform, gen,
                   savedApiKey, savedSettings, settings, clock>>

\* fetch settles, and request returns or throws
FetchSettles ==
    /\ client.pc = "fetch"
    /\ \E response \in Responses :
          client' = [pc |-> "done", url |-> client.url, response |-> response,
                     result |-> RequestResult(response)]
    /\ UNCHANGED <<apiKey, hookVars, pendingEffects, dashVars, parse, xform, gen,
                   savedApiKey, savedSettings, settings, clock>>

NextClient ==
    \/ ClientGet
    \/ FetchSettles

SpecClient == InitClient /\ [][NextClient]_vars

\* ------------------------------------------------------------------------
\* WeatherSettings: the API key of the settings panel, next to the hook
\* ------------------------------------------------------------------------

\* an API key typed into the panel
StrKey == <<"k", "1">>

\* what the API key field can hold after a change
KeyInputs == {<<>>, StrKey}

\* the panel is mounted over what an earlier visit may have saved
InitSettings ==
    /\ InitHook
    /\ lastLocation \in {<<>>, StrCoords}
    /\ location = InitialLocation(lastLocation)
    /\ pendingEffects = <<location>>
    /\ searchQuery = <<>>
    /\ toast = "none"
    /\ ds = IdleSearch
    /\ sel = IdleSelect
    /\ geoloc = IdleLocate
    /\ parse = IdleParse
    /\ xform = IdleTransform
    /\ gen = IdleGen
    /\ client = IdleClient
    /\ savedApiKey \in {<<>>, StrKey}
    /\ savedSettings = NoEntry
    /\ settings = MountedSettings(savedApiKey, savedSettings)
    /\ clock = 0

\* handleApiKeyChange(value)
HandleApiKeyChange ==
    /\ EffectsFlushed
    /\ \E value \in KeyInputs :
         settings' = [settings EXCEPT !.apiKey = value, !.hasUnsavedChanges = TRUE]
    /\ UNCHANGED <<apiKey, hookVars, pendingEffects, dashVars, parse, xform, gen,
                   client, savedApiKey, savedSettings, clock>>

\* saveSettings: the key and the settings go to localStorage; onApiKeyChange and
\* onSettingsChange are optional and no component passes them
SaveSettings ==
    /\ EffectsFlushed
    /\ savedApiKey' = settings.apiKey
    /\ savedSettings' = <<settings.settings>>
    /\ settings' = [settings EXCEPT !.hasUnsavedChanges = FALSE,
                                    !.callsAtSave = Len(calls)]
    /\ UNCHANGED <<apiKey, hookVars, pendingEffects, dashVars, parse, xform, gen,
                   client, clock>>

\* What the controls of the panel pass to handleSettingChange: a key and a value
SettingInputs == {<<"units", "imperial">>}

\* handleSettingChange that stores the settings as they change
HandleSettingChangeStoring ==
    /\ EffectsFlushed
    /\ \E kv \in SettingInputs :
         /\ settings' = [settings EXCEPT !.settings = [@ EXCEPT ![kv[1]] = kv[2]],
                                         !.hasUnsavedChanges = TRUE]
         /\ savedSettings' = <<settings'.settings>>
    /\ UNCHANGED <<apiKey, hookVars, pendingEffects, dashVars, parse, xform, gen,
                   client, savedApiKey, clock>>

\* handleSettingChange(key, value)
HandleSettingChange ==
    /\ EffectsFlushed
    /\ \E kv \in SettingInputs :
         settings' = [settings EXCEPT !.settings = [@ EXCEPT ![kv[1]] = kv[2]],
                                      !.hasUnsavedChanges = TRUE]
    /\ UNCHANGED <<apiKey, hookVars, pendingEffects, dashVars, parse, xform, gen,
                   client, savedApiKey, savedSettings, clock>>

\* resetSettings
ResetSettings ==
    /\ EffectsFlushed
    /\ settings' = [settings EXCEPT !.settings = DEFAULT_SETTINGS,
                                    !.hasUnsavedChanges = TRUE]
    /\ UNCHANGED <<apiKey, hookVars, pendingEffects, dashVars, parse, xform, gen,
                   client, savedApiKey, savedSettings, clock>>

\* A caller of the hook calls fetchWeatherData with coordinates
FetchByCoordinates ==
    /\ Room(MaxCalls)
    /\ Fetch(Arg(StrCoords), "caller")
    /\ UNCHANGED <<apiKey, pendingEffects, dashVars, parse, xform, otherVars>>

NextSettings ==
    \/ InitialFetchEffect
    \/ FetchByCoordinates
    \/ GeocodeResponds
    \/ CurrentWeatherResponds
    \/ ForecastResponds
    \/ HandleApiKeyChange
    \/ SaveSettings

SpecSettings == InitSettings /\ [][NextSettings]_vars

\* ------------------------------------------------------------------------
\* The hook when every request is answered in the end, with success or with
\* failure: the effect's call and calls with coordinates
\* ------------------------------------------------------------------------

NextLive ==
    \/ InitialFetchEffect
    \/ FetchByCoordinates
    \/ GeocodeResponds
    \/ CurrentWeatherResponds
    \/ ForecastResponds

SpecLive ==
    /\ Init
    /\ [][NextLive]_vars
    /\ WF_vars(GeocodeResponds)
    /\ WF_vars(CurrentWeatherResponds)
    /\ WF_vars(ForecastResponds)

\* ------------------------------------------------------------------------
\* Everything that writes to localStorage: the dashboard's handlers and the
\* settings panel, in a build without a key
\* ------------------------------------------------------------------------

InitPersist ==
    /\ InitHook
    /\ apiKey = FALSE
    /\ lastLocation = <<>>
    /\ location = InitialLocation(lastLocation)
    /\ pendingEffects = <<location>>
    /\ searchQuery = <<>>
    /\ toast = "none"
    /\ ds = IdleSearch
    /\ sel = IdleSelect
    /\ geoloc = IdleLocate
    /\ parse = IdleParse
    /\ xform = IdleTransform
    /\ InitOthers
    /\ clock = 0

NextPersist ==
    \/ LocationEffect
    \/ TypeQuery
    \/ HandleDirectSearch
    \/ DirectSearchResponds
    \/ HandleLocationSelect
    \/ HandleGetCurrentLocation
    \/ PositionFound
    \/ PositionFailed
    \/ ClickRefresh
    \/ DashGeocodeResponds
    \/ HandleApiKeyChange
    \/ HandleSettingChange
    \/ ResetSettings
    \/ SaveSettings

SpecPersist == InitPersist /\ [][NextPersist]_vars

\* ------------------------------------------------------------------------
\* The hook over the hours: mockData.ts is evaluated once, when it is imported
\* ------------------------------------------------------------------------

\* the hours of the day at which the application starts
LoadHours == {9, 23}

\* mockData.ts evaluated at hour h with the draws of seed and stride: the value
\* of the exported constant mockWeatherData
LoadedMock(h, seed, stride) ==
    LET g == [pc |-> "done", currentHour |-> h, seed |-> seed, stride |-> stride,
              i |-> HoursGenerated]
        forecast == [k \in 1..HoursGenerated |-> MockHour(g, k - 1)]
    IN  [pc |-> "done", currentHour |-> h, seed |-> seed, stride |-> stride,
         i |-> HoursGenerated, forecast |-> forecast, hourly |-> forecast,
         daily |-> MockDaily]

\* the application starts: the modules are loaded and the hook is mounted
InitHours ==
    /\ InitHook
    /\ lastLocation \in {<<>>, StrCoords}
    /\ location = InitialLocation(lastLocation)
    /\ pendingEffects = <<location>>
    /\ searchQuery = <<>>
    /\ toast = "none"
    /\ ds = IdleSearch
    /\ sel = IdleSelect
    /\ geoloc = IdleLocate
    /\ parse = IdleParse
    /\ xform = IdleTransform
    /\ client = IdleClient
    /\ savedApiKey = <<>>
    /\ savedSettings = NoEntry
    /\ settings = MountedSettings(savedApiKey, savedSettings)
    /\ \E h \in LoadHours : gen = LoadedMock(h, 33, 37) /\ clock = h

\* an hour of the clock passes
HourPasses ==
    /\ clock' = (clock + 1) % 24
    /\ UNCHANGED <<apiKey, hookVars, pendingEffects, dashVars, parse, xform, gen,
                   client, savedApiKey, savedSettings, settings>>

NextHours ==
    \/ InitialFetchEffect
    \/ RefreshWeatherData
    \/ GeocodeResponds
    \/ CurrentWeatherResponds
    \/ ForecastResponds
    \/ HourPasses

SpecHours == InitHours /\ [][NextHours]_vars

\* ------------------------------------------------------------------------
\* Claims about fetchWeatherData (checked under Spec)
\* ------------------------------------------------------------------------

Done(i) == calls[i].pc = "done"

\* the call issued the current-weather and the forecast request
IssuedWeather(i) == calls[i].cur # "none"

WeatherRequests(i) ==
    {k \in 1..Len(calls[i].log) : calls[i].log[k].kind \in {"weather", "forecast"}}

\* C1: with the API configured and valid coordinates, a call one of whose two
\* requests failed stores the mock dataset as a whole: current, hourly and daily
\* all come from the mock, never live data of one request merged with the mock.
C1_FailedFetchIsAllMock ==
    \A i \in 1..Len(calls) :
        (/\ apiKey
         /\ Done(i)
         /\ IssuedWeather(i)
         /\ calls[i].cur = "failed" \/ calls[i].fc = "failed")
        => calls[i].data = MockData

\* C2: without an API key, fetchWeatherData(location) issues no HTTP request at
\* all, for any location string, and its result is the mock dataset.
C2_NoKeyNoRequest ==
    ~apiKey =>
        \A i \in 1..Len(calls) :
            /\ calls[i].log = <<>>
            /\ Done(i) => calls[i].data = MockData

\* C4: whenever the API key is absent, or the resolver returned null, the call
\* issues no current-weather and no forecast request, and its result, which it
\* stores in weatherData when it completes, is the mock dataset.
C4_MockWithoutKeyOrCoords ==
    \A i \in 1..Len(calls) :
        (~apiKey \/ (Done(i) /\ calls[i].coords.null))
        => /\ WeatherRequests(i) = {}
           /\ Done(i) => calls[i].data = MockData
           /\ (Done(i) /\ calls[i].doneAt = Completed) => weatherData = MockData

\* C4 witness: with a key, a free-text location that geocoding answered with no
\* match completed with the mock dataset.
C4_Witness ==
    \E i \in 1..Len(calls) :
        /\ apiKey
        /\ Done(i)
        /\ calls[i].geo = "ok"
        /\ calls[i].coords.null
        /\ weatherData = MockData
        /\ lastUpdated > 0

\* C5: when a geocoding, current-weather or forecast request of a call failed,
\* the error message is non-null once the call has completed (no later call has
\* reset it), while weatherData holds a complete dataset.
C5_FailureSetsError ==
    \A i \in 1..Len(calls) :
        (/\ i = Len(calls)
         /\ Done(i)
         /\ "failed" \in {calls[i].geo, calls[i].cur, calls[i].fc})
        => /\ error # "null"
           /\ weatherData.current.src # "none"

\* C6: no call is cancelled and each applies its result when it resolves, so
\* weatherData is the result of the call that resolved last, whichever was issued
\* first.
C6_LastResolvedWins ==
    \A i \in 1..Len(calls) :
        (Done(i) /\ calls[i].doneAt = Completed) => weatherData = calls[i].data

\* C6 witness: call 1 was issued before call 2 and resolved after it, with a
\* different result, and weatherData is the result of call 1.
C6_Witness ==
    /\ Len(calls) >= 2
    /\ Done(1) /\ Done(2)
    /\ calls[1].doneAt > calls[2].doneAt
    /\ calls[1].doneAt = Completed
    /\ calls[1].data # calls[2].data
    /\ weatherData = calls[1].data

\* CurrentWeatherData: the fields that are not optional
RequiredCurrentFields ==
    {"temperature", "condition", "description", "icon", "feelsLike", "humidity",
     "windSpeed", "windDirection", "pressure", "visibility", "uvIndex", "sunrise",
     "sunset", "dewPoint"}

\* C15: every value weatherData holds, on every path (initial state, mock, both
\* requests answered, one of them failed), has a current with every required
\* field and hourly and daily arrays; so has the result of every completed call.
C15_SameShape ==
    /\ RequiredCurrentFields \subseteq FieldsOfCurrent(weatherData.current)
    /\ IsArray(weatherData.hourly)
    /\ IsArray(weatherData.daily)
    /\ \A i \in 1..Len(calls) :
          Done(i) =>
            /\ RequiredCurrentFields \subseteq FieldsOfCurrent(calls[i].data.current)
            /\ IsArray(calls[i].data.hourly)
            /\ IsArray(calls[i].data.daily)

\* C15 witness: weatherData holds the current conditions of the service with the
\* hourly and daily of the mock, the forecast request having failed.
C15_Witness ==
    /\ weatherData.current.src = "weather"
    /\ weatherData.hourly.src = "mock"
    /\ weatherData.daily.src = "mock"
    /\ \E i \in 1..Len(calls) :
          Done(i) /\ calls[i].cur = "ok" /\ calls[i].fc = "failed"

\* ------------------------------------------------------------------------
\* Claims about handleDirectSearch (checked under SpecDash)
\* ------------------------------------------------------------------------

\* C3: while handleDirectSearch finds no result, and when every rewrite of the
\* query has come back empty, it calls fetchWeatherData for nothing and leaves
\* weatherData, the displayed location and the persisted last location as they
\* are; when the last rewrite has come back empty it shows 'Location not found'.
C3_NotFoundChangesNothing ==
    [][ (ds' # ds /\ ds'.pc \in {"search", "notfound"})
        => /\ calls' = calls
           /\ weatherData' = weatherData
           /\ location' = location
           /\ lastLocation' = lastLocation
           /\ ds'.call = 0
           /\ ds'.pc = "notfound" => toast' = NotFoundToast ]_vars

\* C3 witness: with a key, the four rewrites of a query were searched, each came
\* back empty, and the toast is shown.
C3_Witness ==
    /\ apiKey
    /\ ds.pc = "notfound"
    /\ Len(ds.log) = 4
    /\ Cardinality({ds.attempts[k] : k \in 1..4}) = 4
    /\ toast = NotFoundToast

\* ------------------------------------------------------------------------
\* Claims about parseLocation (checked under SpecParse)
\* ------------------------------------------------------------------------

\* t reads as an optionally signed decimal: -? digits, then optionally . digits
IsDecimalText(t) ==
    LET u == IF t # <<>> /\ Head(t) = "-" THEN Tail(t) ELSE t
    IN  \E k \in 1..Len(u) :
          /\ \A x \in 1..k : u[x] \in Digits
          /\ \/ k = Len(u)
             \/ /\ k + 2 <= Len(u)
                /\ u[k + 1] = "."
                /\ \A x \in (k + 2)..Len(u) : u[x] \in Digits

\* the weight of the digits of u from position x on, for a decimal point at
\* position dot (Len(u) + 1: none) and e digits after it, in units of 10^-e
RECURSIVE PlaceSum(_, _, _, _)
PlaceSum(u, dot, e, x) ==
    IF x > Len(u) THEN 0
    ELSE (IF x < dot THEN DigitVal(u[x]) * Pow10(dot - 1 - x + e)
          ELSE IF x = dot THEN 0
          ELSE DigitVal(u[x]) * Pow10(Len(u) - x))
         + PlaceSum(u, dot, e, x + 1)

\* the number a decimal text denotes: each digit weighs by its place
DecimalTextValue(t) ==
    LET neg == Head(t) = "-"
        u   == IF neg THEN Tail(t) ELSE t
        dot == IF \E x \in 1..Len(u) : u[x] = "."
               THEN CHOOSE x \in 1..Len(u) : u[x] = "." ELSE Len(u) + 1
        e   == IF dot > Len(u) THEN 0 ELSE Len(u) - dot
        m   == PlaceSum(u, dot, e, 1)
    IN  Dec(IF neg THEN 0 - m ELSE m, e)

\* the ways s reads as: decimal, white space, a comma, white space, decimal
CoordinateReadings(s) ==
    {r \in (1..Len(s)) \X (1..Len(s)) \X (1..Len(s)) :
        /\ r[1] < r[2] /\ r[2] < r[3]
        /\ IsDecimalText(SubSeq(s, 1, r[1]))
        /\ \A x \in (r[1] + 1)..(r[2] - 1) : s[x] \in Whitespace
        /\ s[r[2]] = ","
        /\ \A x \in (r[2] + 1)..(r[3] - 1) : s[x] \in Whitespace
        /\ IsDecimalText(SubSeq(s, r[3], Len(s)))}

\* C7: for a string that reads as a coordinate pair, parseLocation returns exactly
\* that pair and issues no geocoding request; for any other non-empty string it
\* calls the geocoding search with limit 1 and returns the coordinates of the
\* first result, or null when the result is empty.
C7_ParseLocation ==
    parse.pc = "done" =>
        IF CoordinateReadings(parse.s) # {}
        THEN /\ ~parse.searched
             /\ parse.log = <<>>
             /\ \A r \in CoordinateReadings(parse.s) :
                   parse.coords =
                       Coords(DecimalTextValue(SubSeq(parse.s, 1, r[1])),
                              DecimalTextValue(SubSeq(parse.s, r[3], Len(parse.s))))
        ELSE parse.s # <<>> =>
             /\ parse.searched
             /\ \A k \in 1..Len(parse.log) :
                   parse.log[k] = GeoRequest(parse.s, 1)
             /\ Len(parse.log) <= 1
             /\ parse.coords = IF parse.results = <<>> THEN NullCoords
                               ELSE Coords(parse.results[1].lat, parse.results[1].lon)

\* C7 witness: a string with a fraction in its latitude was parsed, without a
\* search, to a pair with a non-zero longitude.
C7_Witness ==
    /\ parse.pc = "done"
    /\ ~parse.searched
    /\ parse.log = <<>>
    /\ ~parse.coords.null
    /\ parse.coords.lat.e > 0
    /\ Truthy(parse.coords.lon)

\* ------------------------------------------------------------------------
\* Claims about the transforms (checked under SpecTransform)
\* ------------------------------------------------------------------------

\* the tag the table documents for each of its 18 codes
DocumentedTag ==
    [code \in {"01d", "01n", "02d", "02n", "03d", "03n", "04d", "04n", "09d", "09n",
               "10d", "10n", "11d", "11n", "13d", "13n", "50d", "50n"} |->
        CASE code \in {"01d", "01n"} -> "sunny"
          [] code \in {"02d", "02n"} -> "partly-cloudy"
          [] code \in {"03d", "03n", "04d", "04n"} -> "cloudy"
          [] code \in {"09d", "09n", "10d", "10n"} -> "rainy"
          [] code \in {"11d", "11n"} -> "thunderstorm"
          [] code \in {"13d", "13n"} -> "snowy"
          [] code \in {"50d", "50n"} -> "fog"]

\* the tag the claim gives a code: the documented one, or 'sunny'
ClaimedTag(code) ==
    IF code \in DOMAIN DocumentedTag THEN DocumentedTag[code] ELSE "sunny"

\* the items of the list that fall on the day of a daily entry
ItemsOfDay(list, day) == {k \in 1..Len(list) : WeekdayShort(list[k].dt) = day}

\* C8: in both transforms every icon code of the 18-entry table maps to its
\* documented tag, every other code maps to 'sunny', and so every icon of
\* current, hourly and daily is one of the 8 condition tags.
C8_IconMapping ==
    /\ xform.pc = "current-done" =>
          /\ xform.output.current.icon = ClaimedTag(xform.input.icon)
          /\ xform.output.current.icon \in WeatherConditions
    /\ xform.pc = "forecast-done" =>
          LET list == xform.input.list
              out  == xform.output
          IN  /\ out.current.icon = ClaimedTag(list[1].icon)
              /\ \A k \in 1..Len(out.hourly) :
                    out.hourly[k].icon = ClaimedTag(list[k].icon)
              /\ \A d \in 1..Len(out.daily) :
                    /\ out.daily[d].icon \in WeatherConditions
                    /\ \E k \in ItemsOfDay(list, out.daily[d].day) :
                          out.daily[d].icon = ClaimedTag(list[k].icon)

\* C9: for every bearing d from 0 to 360 degrees windDirection is the compass
\* string of the sector d falls in, the 16 sectors being 22.5 degrees wide and
\* centred on N, NNE, ... (index round(d / 22.5) mod 16, a half rounding up):
\* 0 -> N, 45 -> NE, 180 -> S, 360 -> N, and an absent bearing gives N.
C9_WindDirection ==
    xform.pc = "current-done" =>
        LET deg == xform.input.deg
            q   == deg.n
            R   == WindResolution
            dir == xform.output.current.windDirection
        IN  /\ dir \in {Directions[k] : k \in 1..16}
            /\ ~deg.given => dir = "N"
            /\ deg.given =>
                  \E k \in 0..16 :
                     /\ 45 * R * (2 * k - 1) <= 4 * q
                     /\ 4 * q < 45 * R * (2 * k + 1)
                     /\ dir = Directions[(k % 16) + 1]
            /\ (deg.given /\ q = 0) => dir = "N"
            /\ (deg.given /\ q = 45 * R) => dir = "NE"
            /\ (deg.given /\ q = 180 * R) => dir = "S"
            /\ (deg.given /\ q = 360 * R) => dir = "N"

\* C9 witness: a bearing of more than 348.75 and less than 360 degrees, whose
\* index wraps from 16 to 0, gave N.
C9_Witness ==
    /\ xform.pc = "current-done"
    /\ xform.input.deg.given
    /\ 4 * xform.input.deg.n > 1395 * WindResolution
    /\ xform.input.deg.n < 360 * WindResolution
    /\ xform.output.current.windDirection = "N"

\* C10: each daily entry has as high the maximum temp_max and as low the minimum
\* temp_min of the items of its day, every item's day has one entry, and low is
\* at most high when every item has temp_min at most temp_max.
C10_DailyHighLow ==
    xform.pc = "forecast-done" =>
        LET list  == xform.input.list
            daily == xform.output.daily
        IN  /\ \A k \in 1..Len(list) :
                  Cardinality({d \in 1..Len(daily) :
                                  daily[d].day = WeekdayShort(list[k].dt)}) = 1
            /\ \A d \in 1..Len(daily) :
                  LET items == ItemsOfDay(list, daily[d].day)
                  IN  /\ \E k \in items : daily[d].high = list[k].temp_max
                      /\ \A k \in items : list[k].temp_max <= daily[d].high
                      /\ \E k \in items : daily[d].low = list[k].temp_min
                      /\ \A k \in items : daily[d].low <= list[k].temp_min
                      /\ (\A k \in 1..Len(list) : list[k].temp_min <= list[k].temp_max)
                            => daily[d].low <= daily[d].high

\* C10 witness: a day of three items whose high comes from an item that is not
\* the first and did not supply the icon, and whose low comes from another item.
C10_Witness ==
    /\ xform.pc = "forecast-done"
    /\ Len(xform.input.list) = 3
    /\ Len(xform.output.daily) = 1
    /\ LET list == xform.input.list
           day  == xform.output.daily[1]
       IN  /\ day.high = list[3].temp_max
           /\ day.high > list[1].temp_max /\ day.high > list[2].temp_max
           /\ day.low = list[1].temp_min
           /\ day.low < list[2].temp_min /\ day.low < list[3].temp_min
           /\ OrZero(list[3].pop) = 0
           /\ OrZero(list[2].pop) > 0
           /\ day.icon = ClaimedTag(list[2].icon)
           /\ day.icon # ClaimedTag(list[3].icon)

\* the largest probability of precipitation among the items `items` of a list
MaxPop(list, items) ==
    CHOOSE m \in {OrZero(list[k].pop) : k \in items} :
        \A k \in items : OrZero(list[k].pop) <= m

\* the first item of `items` whose probability of precipitation is the largest
FirstWettest(list, items) ==
    CHOOSE k \in items :
        /\ OrZero(list[k].pop) = MaxPop(list, items)
        /\ \A j \in items : OrZero(list[j].pop) = MaxPop(list, items) => k <= j

\* C11: the precipitation of each daily entry is round(100 x the largest pop of
\* the items of its day), and its icon and description are those of the first
\* item of the day with that largest pop.
C11_DayOfHighestPop ==
    xform.pc = "forecast-done" =>
        LET list  == xform.input.list
            daily == xform.output.daily
        IN  \A d \in 1..Len(daily) :
              LET items == ItemsOfDay(list, daily[d].day)
                  k     == FirstWettest(list, items)
              IN  /\ daily[d].precipitation = PrecipitationOf(list[k])
                  /\ daily[d].icon = IconOf(ForecastIconMapping, list[k].icon)
                  /\ daily[d].description = list[k].description

\* the bucket keys of a list
KeysOf(list) == {WeekdayShort(list[k].dt) : k \in 1..Len(list)}

\* the position of the first item of a list with bucket key `key`
FirstAppearance(list, key) ==
    CHOOSE k \in 1..Len(list) :
        /\ WeekdayShort(list[k].dt) = key
        /\ \A j \in 1..(k - 1) : WeekdayShort(list[j].dt) # key

\* C12: daily has at most 7 entries, one for each bucket key, in the order in which
\* the keys first appear in the list (not in the order of their dates); with more
\* than 7 keys it has the 7 that appear first.
C12_DailyOrderAndCap ==
    xform.pc = "forecast-done" =>
        LET list  == xform.input.list
            daily == xform.output.daily
            keys  == {daily[d].day : d \in 1..Len(daily)}
        IN  /\ Len(daily) <= 7
            /\ Len(daily) = MathMin(7, Cardinality(KeysOf(list)))
            /\ keys \subseteq KeysOf(list)
            /\ \A d, e \in 1..Len(daily) :
                  d < e => FirstAppearance(list, daily[d].day)
                             < FirstAppearance(list, daily[e].day)
            /\ \A key \in KeysOf(list) \ keys : \A d \in 1..Len(daily) :
                  FirstAppearance(list, daily[d].day) < FirstAppearance(list, key)

\* C12 witness: a list of nine items of nine days, not in the order of their
\* dates, gave seven daily entries, the second of a day before that of the first.
C12_Witness ==
    /\ xform.pc = "forecast-done"
    /\ Len(xform.input.list) = 9
    /\ Cardinality({xform.input.list[k].dt : k \in 1..9}) = 9
    /\ Len(xform.output.daily) = 7
    /\ xform.input.list[2].dt < xform.input.list[1].dt
    /\ xform.output.daily[1].day = WeekdayShort(xform.input.list[1].dt)
    /\ xform.output.daily[2].day = WeekdayShort(xform.input.list[2].dt)

\* C13: hourly is the transform of the first min(8, |list|) items in the order of
\* the list; the precipitation of each is an integer nearest to 100 x pop, from 0
\* to 100 for a pop from 0 to 1, and 0 for an absent pop.
C13_HourlyFirstEight ==
    xform.pc = "forecast-done" =>
        LET list   == xform.input.list
            hourly == xform.output.hourly
        IN  /\ Len(hourly) = (IF Len(list) < 8 THEN Len(list) ELSE 8)
            /\ \A k \in 1..Len(hourly) :
                  LET item == list[k]
                      h    == hourly[k]
                  IN  /\ 2 * TempUnit * h.temperature <= 2 * item.temp + TempUnit
                      /\ 2 * TempUnit * h.temperature > 2 * item.temp - TempUnit
                      /\ h.icon = IconOf(ForecastIconMapping, item.icon)
                      /\ h.precipitation \in 0..100
                      /\ ~item.pop.given => h.precipitation = 0
                      /\ item.pop.given =>
                            /\ 2 * PopUnit * h.precipitation <= 200 * item.pop.n + PopUnit
                            /\ 2 * PopUnit * h.precipitation >= 200 * item.pop.n - PopUnit

\* C13 witness: a list of nine items with nine temperatures gave the eight hourly
\* entries of its first eight items.
C13_Witness ==
    /\ xform.pc = "forecast-done"
    /\ Len(xform.input.list) = 9
    /\ Len(xform.output.hourly) = 8
    /\ Cardinality({xform.output.hourly[k].temperature : k \in 1..8}) = 8
    /\ \A k \in 1..8 :
          TempUnit * xform.output.hourly[k].temperature = xform.input.list[k].temp + 5

\* ------------------------------------------------------------------------
\* Claims about the mock dataset (checked under SpecMock)
\* ------------------------------------------------------------------------

\* C14: whatever the hour and the draws, the mock dataset has exactly 24 hourly
\* and exactly 7 daily entries, its first hourly entry is labelled 'Now' and no
\* other is.
C14_MockShape ==
    gen.pc = "done" =>
        /\ Len(gen.hourly) = 24
        /\ Len(gen.daily) = 7
        /\ gen.hourly[1].time = <<"N", "o", "w">>
        /\ \A k \in 2..Len(gen.hourly) : gen.hourly[k].time # <<"N", "o", "w">>

\* C14 witness: loaded at 11 PM, the dataset has 'Now', then '12 AM', and a day
\* later '10 PM' as its last label, and icons that differ.
C14_Witness ==
    /\ gen.pc = "done"
    /\ gen.currentHour = 23
    /\ gen.hourly[1].time = <<"N", "o", "w">>
    /\ gen.hourly[2].time = <<"1", "2", " ", "A", "M">>
    /\ gen.hourly[24].time = <<"1", "0", " ", "P", "M">>
    /\ Cardinality({gen.hourly[k].icon : k \in 1..24}) = 4

\* ------------------------------------------------------------------------
\* Claims about APIClient (checked under SpecClient)
\* ------------------------------------------------------------------------

NoDuplicates(log) == \A i, j \in 1..Len(log) : i # j => log[i] # log[j]

\* C17: within one operation (one fetchWeatherData call, one handleDirectSearch
\* invocation) the same HTTP request, endpoint and parameters, is never issued
\* more than once.
C17_NoRequestTwice ==
    /\ NoDuplicates(ds.log)
    /\ \A i \in 1..Len(calls) : NoDuplicates(calls[i].log)

\* the words of s: its maximal runs of characters that are not white space
RECURSIVE WordsFrom(_, _)
WordsFrom(s, word) ==
    LET ended == IF word = <<>> THEN <<>> ELSE <<word>>
    IN  IF s = <<>> THEN ended
        ELSE IF Head(s) \in Whitespace THEN ended \o WordsFrom(Tail(s), <<>>)
        ELSE WordsFrom(Tail(s), Append(word, Head(s)))

\* rewrite (b): the words of s joined by ', '
WordsCommaJoined(s) == Join(WordsFrom(s, <<>>), <<",", " ">>)

\* a word boundary after s[i]: a lowercase letter before an uppercase letter or a
\* digit, or a digit before a letter
BoundaryAfter(s, i) ==
    /\ i < Len(s)
    /\ \/ s[i] \in Lower /\ s[i + 1] \in Upper \cup Digits
       \/ s[i] \in Digits /\ s[i + 1] \in Lower \cup Upper

\* rewrite (c): s from its i-th character on with a space at each boundary
RECURSIVE BoundariesSplitFrom(_, _)
BoundariesSplitFrom(s, i) ==
    IF i > Len(s) THEN <<>>
    ELSE <<s[i]>> \o (IF BoundaryAfter(s, i) THEN <<" ">> ELSE <<>>)
                  \o BoundariesSplitFrom(s, i + 1)

\* the invocation found a place
Found == ds.pc \in {"fetch", "done"}

C19_FailedSearchIsEmpty ==
    (parse.pc = "done" /\ parse.outcome = "failed") => parse.results = <<>>

\* ------------------------------------------------------------------------
\* Claims about the API key (checked under SpecSettings)
\* ------------------------------------------------------------------------

\* the coordinates let line 42 go on to the live requests
Usable(coords) == ~coords.null /\ Truthy(coords.lat) /\ Truthy(coords.lon)

\* what C20 says of the calls of one state
ModeOfCalls ==
    \A i \in 1..Len(calls) :
        /\ IssuedWeather(i) => apiKey
        /\ (~apiKey /\ Done(i)) =>
              WeatherRequests(i) = {} /\ calls[i].data = MockData
        /\ (apiKey /\ Done(i) /\ Usable(calls[i].coords)) => IssuedWeather(i)
        /\ \A k \in 1..Len(calls[i].log) : calls[i].log[k].appid = apiKey

\* C20: mock or live is decided by the key read when the module loads and never
\* changes: isAPIConfigured() gives the same value in every state, whatever is
\* typed and saved in the settings panel; a call issues the current-weather and
\* forecast requests only with that key, and with it and usable coordinates it
\* always does; every request carries that key and never the saved one.
C20_ModeNeverChanges ==
    [][IsAPIConfigured' = IsAPIConfigured /\ ModeOfCalls']_vars

\* C20 witness: without a key in the environment, a key was saved in the settings
\* panel after the first call, and a fetchWeatherData call issued after that, with
\* coordinates, ended with the mock dataset and without a weather request.
C20_Witness ==
    /\ ~apiKey
    /\ savedApiKey = StrKey
    /\ ~settings.hasUnsavedChanges
    /\ settings.callsAtSave >= 1
    /\ \E i \in 1..Len(calls) :
         /\ i > settings.callsAtSave
         /\ Done(i)
         /\ Usable(calls[i].coords)
         /\ calls[i].data = MockData
         /\ WeatherRequests(i) = {}

\* t is a clock-time string: two digits, a colon, two digits, AM or PM
IsClockTime(t) ==
    /\ Len(t) = 8
    /\ {t[1], t[2], t[4], t[5]} \subseteq Digits
    /\ t[3] = ":" /\ t[6] = " " /\ t[7] \in {"A", "P"} /\ t[8] = "M"

\* the entries of list are 3 hours apart
ThreeHoursApart(list) ==
    \A k \in 1..(Len(list) - 1) : list[k + 1].dt = list[k].dt + 3 * 3600

\* C23: an hourly entry of the forecast transform is labelled 'Now' if and only
\* if its clock hour is the clock hour at transform time, every other entry has
\* a clock-time string, and of entries 3 hours apart at most one is 'Now'.
C23_NowLabel ==
    xform.pc = "forecast-done" =>
        LET list   == xform.input.list
            hourly == xform.output.hourly
            now    == {k \in 1..Len(hourly) : hourly[k].time = StrNow}
        IN  /\ \A k \in 1..Len(hourly) :
                  /\ k \in now <=> (list[k].dt \div 3600) % 24 = clock
                  /\ k \notin now => IsClockTime(hourly[k].time)
            /\ ThreeHoursApart(list) => Cardinality(now) <= 1

\* C23 witness: of eight entries 3 hours apart the fourth alone is 'Now', and
\* the first is labelled '09:00 PM'.
C23_Witness ==
    /\ xform.pc = "forecast-done"
    /\ Len(xform.output.hourly) = 8
    /\ ThreeHoursApart(xform.input.list)
    /\ {k \in 1..8 : xform.output.hourly[k].time = StrNow} = {4}
    /\ xform.output.hourly[1].time = <<"0", "9", ":", "0", "0", " ", "P", "M">>

\* the calendar date of an item, in days since 1 January 1970
DateOf(item) == item.dt \div SecondsPerDay

\* the items of list that fall on calendar date d
ItemsOfDate(list, d) == {k \in 1..Len(list) : DateOf(list[k]) = d}

\* C24: every daily entry aggregates the items of one calendar date only: its
\* high and its low are the highest temp_max and the lowest temp_min of the
\* items of one and the same date.
C24_OneDatePerDailyEntry ==
    xform.pc = "forecast-done" =>
        LET list == xform.input.list
        IN  \A j \in 1..Len(xform.output.daily) :
              \E d \in {DateOf(list[k]) : k \in 1..Len(list)} :
                 LET e     == xform.output.daily[j]
                     items == ItemsOfDate(list, d)
                 IN  /\ e.day = WeekdayShort(d * SecondsPerDay)
                     /\ \E k \in items : e.high = list[k].temp_max
                     /\ \A k \in items : e.high >= list[k].temp_max
                     /\ \E k \in items : e.low = list[k].temp_min
                     /\ \A k \in items : e.low <= list[k].temp_min

\* ------------------------------------------------------------------------
\* Claims about the entries of the mock hourly series (checked under SpecMock)
\* ------------------------------------------------------------------------

\* the conditions entry i (from 0) can have: the pattern at i, i + 1 or i + 2
PatternTags(i) == {WeatherPatterns[((i + k) % 12) + 1] : k \in {0, 1, 2}}

\* the band of the precipitation of a condition
InBand(icon, precipitation) ==
    IF icon = "rainy" THEN precipitation \in 60..90
    ELSE IF icon = "cloudy" THEN precipitation \in 0..20
    ELSE IF icon = "partly-cloudy" THEN precipitation \in 0..10
    ELSE precipitation = 0

\* C22: in every mock hourly entry, whatever is drawn, the condition is the
\* pattern's tag at (i + k) mod 12 for a k of 0, 1 or 2, and the precipitation is
\* an integer in the band of the condition: rainy 60..90, cloudy 0..20,
\* partly-cloudy 0..10, any other condition 0.
C22_MockConditionAndBand ==
    \A k \in 1..Len(gen.forecast) :
        /\ gen.forecast[k].icon \in PatternTags(k - 1)
        /\ gen.forecast[k].precipitation \in Int
        /\ InBand(gen.forecast[k].icon, gen.forecast[k].precipitation)

\* C22 witness: a dataset with a rainy hour at 90, a cloudy hour at 20 and a
\* sunny hour, one of its hours having skipped two places of the pattern.
C22_Witness ==
    /\ gen.pc = "done"
    /\ \E k \in 1..24 : gen.hourly[k].icon = "rainy" /\ gen.hourly[k].precipitation = 90
    /\ \E k \in 1..24 : gen.hourly[k].icon = "cloudy" /\ gen.hourly[k].precipitation = 20
    /\ \E k \in 1..24 : gen.hourly[k].icon = "sunny" /\ gen.hourly[k].precipitation = 0
    /\ \E k \in 1..24 :
          gen.hourly[k].icon \notin {WeatherPatterns[((k - 1) % 12) + 1],
                                     WeatherPatterns[(k % 12) + 1]}

\* ------------------------------------------------------------------------
\* Claims about the mock dataset over the hours (checked under SpecHours)
\* ------------------------------------------------------------------------

\* call i completes in this step
Completes(i) == calls'[i].pc = "done" /\ (i > Len(calls) \/ calls[i].pc # "done")

\* the hourly series of mockWeatherData starts at hour h: 'Now', then the labels
\* of the 23 hours after h
StartsAtHour(hourly, h) ==
    /\ Len(hourly) = 24
    /\ hourly[1].time = StrNow
    /\ \A k \in 2..24 : hourly[k].time = ClockLabel((h + k - 1) % 24)

\* C21: whenever a fetch substitutes the mock dataset, the hourly series of the
\* dataset has 24 entries that start at the hour of the clock at that moment,
\* also when that is a later hour than the hour the application started at.
C21_MockStartsAtFetchHour ==
    [][\A i \in 1..Len(calls') :
          (Completes(i) /\ calls'[i].data = MockData)
              => StartsAtHour(gen'.hourly, clock')]_vars

\* C25: persisted state is written only on explicit user action.  The saved key
\* and the saved settings change only in a step of saveSettings, which stores the
\* panel's key and settings and clears hasUnsavedChanges; a step that changes the
\* panel's key or settings in memory leaves both entries alone and sets
\* hasUnsavedChanges, which only that saving step clears.  The last-location entry
\* changes only in the step in which handleLocationSelect passes its awaited
\* fetch, handleDirectSearch passes the fetch for a place it found, or the
\* position lookup of handleGetCurrentLocation succeeds: never in a step of
\* fetchWeatherData or refreshWeatherData alone.
C25_WritesOnlyOnUserAction ==
    [][ /\ (savedApiKey' # savedApiKey \/ savedSettings' # savedSettings)
           => /\ savedApiKey' = settings.apiKey
              /\ savedSettings' = <<settings.settings>>
              /\ settings'.apiKey = settings.apiKey
              /\ settings'.settings = settings.settings
              /\ ~settings'.hasUnsavedChanges
        /\ (settings'.apiKey # settings.apiKey \/ settings'.settings # settings.settings)
           => /\ settings'.hasUnsavedChanges
              /\ savedApiKey' = savedApiKey
              /\ savedSettings' = savedSettings
        /\ (settings.hasUnsavedChanges /\ ~settings'.hasUnsavedChanges)
           => /\ savedApiKey' = settings.apiKey
              /\ savedSettings' = <<settings.settings>>
        /\ lastLocation' # lastLocation
           => \/ /\ sel' # sel
                 /\ sel'.pc = "done"
                 /\ calls'[sel'.call].pc = "done"
                 /\ lastLocation' = sel'.name
              \/ /\ ds.pc \in {"search", "fetch"}
                 /\ ds'.pc = "done"
                 /\ Len(ds'.results) > 0
                 /\ calls'[ds'.call].pc = "done"
                 /\ lastLocation' = ds'.formatted
              \/ /\ geoloc.pc = "locating"
                 /\ geoloc'.pc = "done"
                 /\ geoloc'.geoError = "null"
                 /\ Len(calls') = Len(calls) + 1
                 /\ lastLocation' = calls'[Len(calls')].arg.s ]_vars

\* C25 witness: the settings were saved and changed again since, a position was
\* found and stored, and the effect has fetched for it since.
C25_Witness ==
    /\ savedSettings # NoEntry
    /\ <<settings.settings>> # savedSettings
    /\ settings.hasUnsavedChanges
    /\ savedApiKey = StrKey
    /\ geoloc.pc = "done"
    /\ geoloc.geoError = "null"
    /\ lastLocation = PositionString(Coords(Dec(62, 1), Dec(6526, 3)))
    /\ \E i \in 1..Len(calls) :
         /\ calls[i].by = "effect"
         /\ calls[i].arg.s = lastLocation
         /\ calls[i].pc = "done"

\* C26: with the key set, a call whose argument matches the coordinate pattern
\* issues the current-weather and the forecast request for exactly the
\* coordinates the argument parses to, a zero latitude or longitude included; it
\* does not take the mock dataset in place of the requests.
C26_RequestsForParsedCoords ==
    \A i \in 1..Len(calls) :
        (apiKey /\ calls[i].arg.given /\ CoordPatternTest(calls[i].arg.s))
        => LET c == ParseCoords(calls[i].arg.s)
           IN  {calls[i].log[k] : k \in WeatherRequests(i)} =
                  { Request("weather", <<>>, 0, c.lat, c.lon, apiKey),
                    Request("forecast", <<>>, 0, c.lat, c.lon, apiKey) }

\* C27: refreshWeatherData calls fetchWeatherData without a location: the call
\* issues no request and completes in the turn it starts in, setting weatherData
\* to the mock dataset and updating lastUpdated, whether or not the key is set and
\* whatever weatherData held.
C27_RefreshTakesMock ==
    [][ (Len(calls') > Len(calls) /\ calls'[Len(calls')].by = "refresh")
        => /\ ~calls'[Len(calls')].arg.given
           /\ calls'[Len(calls')].log = <<>>
           /\ calls'[Len(calls')].pc = "done"
           /\ weatherData' = MockData
           /\ lastUpdated' = lastUpdated + 1 ]_vars

\* C27 witness: with the key set, a call for coordinates had stored live data
\* when the refresh that followed it replaced them with the mock dataset.
C27_Witness ==
    /\ apiKey
    /\ Len(calls) = 2
    /\ calls[1].pc = "done"
    /\ calls[1].cur = "ok"
    /\ calls[1].fc = "ok"
    /\ calls[1].data # MockData
    /\ calls[1].doneAt = 1
    /\ calls[2].by = "refresh"
    /\ calls[2].doneAt = 2
    /\ weatherData = MockData
    /\ lastUpdated = 2

\* C28: with the key set and every request answered with success, once
\* handleDirectSearch has found a place r with its first query and the fetch it
\* made and the fetch of the effect that setLocation set off have both completed,
\* weatherData is the data fetched for the coordinates of r (stated for a place
\* off the equator and off the prime meridian).
C28_SearchResultShown ==
    (/\ apiKey
     /\ ds.pc = "done"
     /\ ds.i = 1
     /\ ds.results[1] \in GeoDirectory
     /\ Truthy(ds.results[1].lat)
     /\ Truthy(ds.results[1].lon)
     /\ pendingEffects = <<>>
     /\ Len(calls) = ds.call + 1
     /\ calls[Len(calls)].by = "effect"
     /\ calls[Len(calls)].arg.s = ds.formatted
     /\ \A i \in 1..Len(calls) :
          /\ Done(i)
          /\ calls[i].geo \in {"none", "ok"}
          /\ calls[i].cur \in {"none", "ok"}
          /\ calls[i].fc \in {"none", "ok"})
    => LET r == Coords(ds.results[1].lat, ds.results[1].lon)
       IN  weatherData = Merge(LiveCurrent(r), LiveForecast(r))

\* C29: isLoading is true in every state in which a fetchWeatherData call has
\* started and has not completed, two overlapping calls included.
C29_LoadingWhileAnyCallRuns ==
    (\E i \in 1..Len(calls) : ~Done(i)) => isLoading

\* what the completed calls have set: lastUpdated once per completed call, and
\* weatherData to the data of the call that completed last, or else the error
Settled ==
    \/ error # "null"
    \/ /\ lastUpdated = Completed
       /\ \A i \in 1..Len(calls) :
            (Done(i) /\ calls[i].doneAt = Completed) => weatherData = calls[i].data

\* C30: provided every request is answered in the end, every fetchWeatherData
\* call completes whatever its requests ended as, with isLoading false when it
\* does; and the completed calls have each set weatherData and lastUpdated
\* together, or else the error message.
C30_EveryCallCompletes ==
    /\ []Settled
    /\ \A i \in 1..MaxCalls :
         (Len(calls) >= i) ~> (Len(calls) >= i /\ Done(i) /\ ~isLoading)

\* C30 witness: a call whose geocoding request failed and a call whose
\* current-weather request failed have both completed, and isLoading is false.
C30_Witness ==
    /\ Len(calls) = 2
    /\ Done(1)
    /\ Done(2)
    /\ calls[1].geo = "failed"
    /\ calls[2].cur = "failed"
    /\ ~isLoading
    /\ lastUpdated = 2
    /\ error = "null"

====
